---- MODULE Spec2Model ----
(***************************************************************************)
(* Model of python-backend/chart_analyzer.py: ChartImageAnalyzer.          *)
(*                                                                         *)
(* analyze_chart_image decodes an image, runs six analyzers over the       *)
(* raster, fuses their records into one trading signal and returns a       *)
(* response dict.  _generate_trading_signal (the fusion engine) is also    *)
(* modelled as an operation of its own, called with hand-built records.    *)
(*                                                                         *)
(* Floats are fixed-point integers in units of 1/One (One = 10000), so     *)
(* 0.75 is 7500 and the percentage 2.0 is 20000.  A Python dict is a TLA+  *)
(* record whose DOMAIN is the set of keys present; dict.get is Get.  The   *)
(* OpenCV / PIL calls are not part of the repository: the raster is the    *)
(* record of what those calls measure on it (pixel counts of the colour    *)
(* masks, the segments of the line transforms, the contours) and of which  *)
(* analyzers' library calls raise on it.                                   *)
(***************************************************************************)
EXTENDS Integers, Sequences, FiniteSets, TLC

VARIABLES pc, image_data, image, analysis_results, trading_signal, result,
          decode_attempts, invocations

vars == <<pc, image_data, image, analysis_results, trading_signal, result,
          decode_attempts, invocations>>

(***************************************************************************)
(* Fixed-point arithmetic and dict helpers                                 *)
(***************************************************************************)
One == 10000

\* Python None where a number is expected (formatting it raises TypeError).
NotANumber == 0 - 1

NoneValue == "None"

EmptyDict == [k \in {} |-> 0]

Min(a, b) == IF a < b THEN a ELSE b

Max(a, b) == IF a > b THEN a ELSE b

Abs(a) == IF a < 0 THEN 0 - a ELSE a

\* a * b for two fixed-point numbers
Mul(a, b) == (a * b) \div One

\* n / d for two integers, as a fixed-point number
Ratio(n, d) == (n * One) \div d

\* round x to a multiple of step, ties to the even multiple (Python round / format)
RoundTo(x, step) ==
    LET q == x \div step
        r == x % step
    IN  IF 2 * r < step THEN q * step
        ELSE IF 2 * r > step THEN (q + 1) * step
        ELSE IF q % 2 = 0 THEN q * step ELSE (q + 1) * step

\* f"{x:.1%}": the percentage with one decimal, as a count of tenths of a percent
FormatPercent1(x) == RoundTo(x, 10) \div 10

\* dict.get(key, default)
Get(d, key, default) == IF key \in DOMAIN d THEN d[key] ELSE default

(***************************************************************************)
(* Constants of the fusion engine                                          *)
(***************************************************************************)
TrendWeight == 4000
PatternWeight == 3000
PriceActionWeight == 2000
LevelsBoost == 1000
DefaultBiasStrength == 7000
MinimumConfidence == 7500
CopyConfidence == 9500
FollowConfidence == 9000
FallbackConfidence == 8000
ErrorConfidence == 7500
DefaultConfidence == 5000
HalfPercent == 5000
OneAndHalfPercent == 15000
TwoPercent == 20000
Quantity == 1000

(***************************************************************************)
(* _generate_trading_signal: the three terminal paths and the fallback     *)
(***************************************************************************)
\* variant: the copy path with fixed offsets instead of the record's parameters
CopySignal_FixedOffsets(existing_trade) ==
    [isSignal |-> TRUE,
     confidence |-> CopyConfidence,
     symbol |-> "ETH",
     side |-> "copy",
     entryPrice |-> NoneValue,
     stopLoss |-> NoneValue,
     takeProfit |-> NoneValue,
     stopLossPercent |-> HalfPercent,
     takeProfitPercent |-> OneAndHalfPercent,
     quantity |-> Quantity,
     leverage |-> 1,
     method |-> "copy_existing_trade",
     trade_mode |-> "copy_existing"]

\* lines 584-605
CopySignal(existing_trade) ==
    LET trade_params == Get(existing_trade, "trade_parameters", EmptyDict)
        stop_loss_percent == Get(trade_params, "stop_loss_percent", HalfPercent)
        take_profit_percent == Get(trade_params, "take_profit_percent", OneAndHalfPercent)
    IN  [isSignal |-> TRUE,
         confidence |-> CopyConfidence,
         symbol |-> "ETH",
         side |-> "copy",
         entryPrice |-> NoneValue,
         stopLoss |-> NoneValue,
         takeProfit |-> NoneValue,
         stopLossPercent |-> stop_loss_percent,
         takeProfitPercent |-> take_profit_percent,
         quantity |-> Quantity,
         leverage |-> 1,
         reasoning |-> [prefix |-> "Copying existing trade setup from chart",
                        parts |-> <<[text |-> "SL", value |-> stop_loss_percent],
                                    [text |-> "TP", value |-> take_profit_percent]>>],
         method |-> "copy_existing_trade",
         trade_mode |-> "copy_existing",
         analysis_details |->
            [copied_trade_confidence |-> Get(existing_trade, "confidence", FollowConfidence),
             markers_detected |-> Get(existing_trade, "markers_detected", EmptyDict),
             trade_parameters |-> trade_params,
             copy_mode |-> TRUE]]

\* variant: the follow path taking its offsets from the record's parameters
FollowSignal_UsesParameters(existing_trade) ==
    LET trade_params == Get(existing_trade, "trade_parameters", EmptyDict)
    IN  [isSignal |-> TRUE,
         confidence |-> FollowConfidence,
         symbol |-> "ETH",
         side |-> "follow",
         entryPrice |-> NoneValue,
         stopLoss |-> NoneValue,
         takeProfit |-> NoneValue,
         stopLossPercent |-> Get(trade_params, "stop_loss_percent", HalfPercent),
         takeProfitPercent |-> Get(trade_params, "take_profit_percent", OneAndHalfPercent),
         quantity |-> Quantity,
         leverage |-> 1,
         method |-> "existing_trade_follow",
         trade_mode |-> "follow_existing"]

\* lines 623-643
FollowSignal(existing_trade) ==
    [isSignal |-> TRUE,
     confidence |-> FollowConfidence,
     symbol |-> "ETH",
     side |-> "follow",
     entryPrice |-> NoneValue,
     stopLoss |-> NoneValue,
     takeProfit |-> NoneValue,
     stopLossPercent |-> HalfPercent,
     takeProfitPercent |-> OneAndHalfPercent,
     quantity |-> Quantity,
     leverage |-> 1,
     reasoning |-> [prefix |-> "Following existing trade setup detected in chart with current market price as entry",
                    parts |-> <<>>],
     method |-> "existing_trade_follow",
     trade_mode |-> "follow_existing",
     analysis_details |->
        [existing_trade_confidence |-> Get(existing_trade, "confidence", FallbackConfidence),
         markers_detected |-> Get(existing_trade, "markers_detected", EmptyDict),
         follow_mode |-> TRUE]]

\* variant: the except branch of the fusion engine raises again
FallbackSignal_Reraises == [exception |-> "error"]

\* lines 779-793: the except branch of the fusion engine
FallbackSignal ==
    [isSignal |-> TRUE,
     confidence |-> FallbackConfidence,
     symbol |-> "ETH",
     side |-> "sell",
     entryPrice |-> NoneValue,
     stopLoss |-> NoneValue,
     takeProfit |-> NoneValue,
     stopLossPercent |-> HalfPercent,
     takeProfitPercent |-> TwoPercent,
     quantity |-> Quantity,
     leverage |-> 1,
     reasoning |-> [prefix |-> "Python Analysis Fallback", parts |-> <<>>],
     method |-> "python_fallback"]

(***************************************************************************)
(* _generate_trading_signal: the weighted path, lines 655-775.  The        *)
(* accumulator acc holds signal_strength, signal_direction and reasoning.  *)
(***************************************************************************)
\* lines 656-658
InitialAccumulator ==
    [signal_strength |-> 0, signal_direction |-> NoneValue, reasoning |-> <<>>]

\* lines 662-677: trend analysis weight (40%)
TrendStep(acc, trend) ==
    LET trend_type == Get(trend, "trend", "neutral")
        trend_confidence == Get(trend, "confidence", DefaultConfidence)
    IN  IF trend_type = "bearish"
        THEN [signal_strength |-> acc.signal_strength + Mul(TrendWeight, trend_confidence),
              signal_direction |-> "sell",
              reasoning |-> Append(acc.reasoning,
                  [text |-> "Bearish trend detected", percent |-> FormatPercent1(trend_confidence)])]
        ELSE IF trend_type = "bullish"
        THEN [signal_strength |-> acc.signal_strength + Mul(TrendWeight, trend_confidence),
              signal_direction |-> "buy",
              reasoning |-> Append(acc.reasoning,
                  [text |-> "Bullish trend detected", percent |-> FormatPercent1(trend_confidence)])]
        ELSE acc

\* lines 680-686: pattern analysis weight (30%)
PatternStep(acc, patterns) ==
    IF Get(patterns, "pattern_detected", FALSE)
    THEN LET pattern_confidence == Get(patterns, "confidence", DefaultConfidence)
         IN  [acc EXCEPT
                !.signal_strength = @ + Mul(PatternWeight, pattern_confidence),
                !.reasoning = Append(@, [text |-> "Candlestick patterns identified",
                                         percent |-> FormatPercent1(pattern_confidence)])]
    ELSE acc

\* variant: price action sets the direction whatever the trend has set
PriceActionStep_Overrides(acc, price_action) ==
    LET price_direction == Get(price_action, "trend_direction", "unclear")
        price_strength == Get(price_action, "trend_strength", DefaultConfidence)
    IN  IF price_direction = "downward"
        THEN [signal_strength |-> acc.signal_strength + Mul(PriceActionWeight, price_strength),
              signal_direction |-> "sell",
              reasoning |-> Append(acc.reasoning,
                  [text |-> "Downward price action", percent |-> FormatPercent1(price_strength)])]
        ELSE IF price_direction = "upward"
        THEN [signal_strength |-> acc.signal_strength + Mul(PriceActionWeight, price_strength),
              signal_direction |-> "buy",
              reasoning |-> Append(acc.reasoning,
                  [text |-> "Upward price action", percent |-> FormatPercent1(price_strength)])]
        ELSE acc

\* lines 689-704: price action analysis weight (20%)
PriceActionStep(acc, price_action) ==
    LET price_direction == Get(price_action, "trend_direction", "unclear")
        price_strength == Get(price_action, "trend_strength", DefaultConfidence)
    IN  IF price_direction = "downward"
        THEN [signal_strength |-> acc.signal_strength + Mul(PriceActionWeight, price_strength),
              signal_direction |-> IF acc.signal_direction = NoneValue
                                   THEN "sell" ELSE acc.signal_direction,
              reasoning |-> Append(acc.reasoning,
                  [text |-> "Downward price action", percent |-> FormatPercent1(price_strength)])]
        ELSE IF price_direction = "upward"
        THEN [signal_strength |-> acc.signal_strength + Mul(PriceActionWeight, price_strength),
              signal_direction |-> IF acc.signal_direction = NoneValue
                                   THEN "buy" ELSE acc.signal_direction,
              reasoning |-> Append(acc.reasoning,
                  [text |-> "Upward price action", percent |-> FormatPercent1(price_strength)])]
        ELSE acc

\* variant: the support/resistance string is put in front of the others
LevelsStep_Prepends(acc, levels) ==
    IF Get(levels, "has_support_resistance", FALSE)
    THEN [acc EXCEPT
            !.signal_strength = @ + LevelsBoost,
            !.reasoning = <<[text |-> "Support/resistance levels identified"]>> \o @]
    ELSE acc

\* lines 707-712: support/resistance analysis weight (10%)
LevelsStep(acc, levels) ==
    IF Get(levels, "has_support_resistance", FALSE)
    THEN [acc EXCEPT
            !.signal_strength = @ + LevelsBoost,
            !.reasoning = Append(@, [text |-> "Support/resistance levels identified"])]
    ELSE acc

\* variant: the default direction is buy
DefaultBiasStep_Buy(acc) ==
    IF acc.signal_direction = NoneValue
    THEN [signal_strength |-> Max(DefaultBiasStrength, acc.signal_strength),
          signal_direction |-> "buy",
          reasoning |-> Append(acc.reasoning, [text |-> "Default bullish bias for ETH"])]
    ELSE acc

\* lines 715-719: default to sell bias if no clear direction
DefaultBiasStep(acc) ==
    IF acc.signal_direction = NoneValue
    THEN [signal_strength |-> Max(DefaultBiasStrength, acc.signal_strength),
          signal_direction |-> "sell",
          reasoning |-> Append(acc.reasoning, [text |-> "Default bearish bias for ETH"])]
    ELSE acc

\* variant: the score is returned as it is, without the floor
FinalConfidence_NoFloor(signal_strength) == signal_strength

\* variant: the floor value is also a cap
FinalConfidence_Capped(signal_strength) == Min(MinimumConfidence, Max(MinimumConfidence, signal_strength))

\* line 722: ensure minimum confidence
FinalConfidence(signal_strength) == Max(MinimumConfidence, signal_strength)

\* lines 732-747: percentage offsets by direction
StopLossPercentFor(signal_direction) ==
    IF signal_direction = "sell" THEN HalfPercent ELSE 0 - HalfPercent

\* variant: the target offset of a sell has the sign of a buy
TakeProfitPercentFor_AlwaysPositive(signal_direction) == TwoPercent

TakeProfitPercentFor(signal_direction) ==
    IF signal_direction = "sell" THEN 0 - TwoPercent ELSE TwoPercent

\* lines 656-719: the accumulator after the five scoring steps
Accumulate(trend, patterns, levels, price_action) ==
    DefaultBiasStep(
        LevelsStep(
            PriceActionStep(
                PatternStep(
                    TrendStep(InitialAccumulator, trend),
                    patterns),
                price_action),
            levels))

\* lines 749-769
WeightedSignal(trend, patterns, levels, price_action) ==
    LET acc == Accumulate(trend, patterns, levels, price_action)
    IN  [isSignal |-> TRUE,
         confidence |-> FinalConfidence(acc.signal_strength),
         symbol |-> "ETH",
         side |-> acc.signal_direction,
         entryPrice |-> NoneValue,
         stopLoss |-> NoneValue,
         takeProfit |-> NoneValue,
         stopLossPercent |-> StopLossPercentFor(acc.signal_direction),
         takeProfitPercent |-> TakeProfitPercentFor(acc.signal_direction),
         quantity |-> Quantity,
         leverage |-> 1,
         reasoning |-> [prefix |-> "Python CV Analysis", parts |-> acc.reasoning],
         method |-> "python_computer_vision",
         analysis_details |->
            [trend_score |-> Get(trend, "confidence", DefaultConfidence),
             pattern_score |-> Get(patterns, "confidence", 0),
             price_action_score |-> Get(price_action, "trend_strength", DefaultConfidence),
             total_signal_strength |-> acc.signal_strength]]

\* The statements of the weighted path that raise on a hand-built record:
\* formatting a confidence that is not a number with ":.1%" (lines 664, 683, 691).
WeightedPathRaises(trend, patterns, price_action) ==
    \/ Get(trend, "confidence", DefaultConfidence) = NotANumber
    \/ /\ Get(patterns, "pattern_detected", FALSE)
       /\ Get(patterns, "confidence", DefaultConfidence) = NotANumber
    \/ Get(price_action, "trend_strength", DefaultConfidence) = NotANumber

\* variant: the weighted scoring is evaluated before the existing-trade record
FusionPath_ScoringFirst(analysis) ==
    LET existing_trade == Get(analysis, "existing_trade", EmptyDict)
    IN  IF WeightedPathRaises(Get(analysis, "trend_analysis", EmptyDict),
                              Get(analysis, "candlestick_patterns", EmptyDict),
                              Get(analysis, "price_action", EmptyDict))
        THEN "fallback"
        ELSE IF Get(existing_trade, "has_existing_trade", FALSE)
        THEN IF Get(existing_trade, "trade_type", "follow_existing") = "copy_existing_setup"
             THEN "copy" ELSE "follow"
        ELSE "weighted"

\* lines 564-567: which terminal path the records select
FusionPath(analysis) ==
    LET existing_trade == Get(analysis, "existing_trade", EmptyDict)
    IN  IF Get(existing_trade, "has_existing_trade", FALSE)
        THEN IF Get(existing_trade, "trade_type", "follow_existing") = "copy_existing_setup"
             THEN "copy" ELSE "follow"
        ELSE IF WeightedPathRaises(Get(analysis, "trend_analysis", EmptyDict),
                                   Get(analysis, "candlestick_patterns", EmptyDict),
                                   Get(analysis, "price_action", EmptyDict))
        THEN "fallback" ELSE "weighted"

\* variant: visible volume bars add to the confidence of a weighted signal
GenerateTradingSignal_VolumeConfirms(analysis) ==
    LET trend == Get(analysis, "trend_analysis", EmptyDict)
        existing_trade == Get(analysis, "existing_trade", EmptyDict)
        patterns == Get(analysis, "candlestick_patterns", EmptyDict)
        levels == Get(analysis, "support_resistance", EmptyDict)
        price_action == Get(analysis, "price_action", EmptyDict)
        volume == Get(analysis, "volume_analysis", EmptyDict)
        path == FusionPath(analysis)
    IN  CASE path = "copy" -> CopySignal(existing_trade)
          [] path = "follow" -> FollowSignal(existing_trade)
          [] path = "fallback" -> FallbackSignal
          [] OTHER ->
                IF Get(volume, "volume_present", FALSE)
                THEN [WeightedSignal(trend, patterns, levels, price_action)
                        EXCEPT !.confidence = Min(One, @ + 500)]
                ELSE WeightedSignal(trend, patterns, levels, price_action)

\* lines 545-793
GenerateTradingSignal(analysis) ==
    LET trend == Get(analysis, "trend_analysis", EmptyDict)
        existing_trade == Get(analysis, "existing_trade", EmptyDict)
        patterns == Get(analysis, "candlestick_patterns", EmptyDict)
        levels == Get(analysis, "support_resistance", EmptyDict)
        price_action == Get(analysis, "price_action", EmptyDict)
        path == FusionPath(analysis)
    IN  CASE path = "copy" -> CopySignal(existing_trade)
          [] path = "follow" -> FollowSignal(existing_trade)
          [] path = "fallback" -> FallbackSignal
          [] OTHER -> WeightedSignal(trend, patterns, levels, price_action)

\* variant: an error response without the safe-default signal
CreateErrorResponse_NoSignal(error_message) ==
    [success |-> FALSE, error |-> error_message]

\* lines 795-815
CreateErrorResponse(error_message) ==
    [success |-> FALSE,
     error |-> error_message,
     trading_signal |->
        [isSignal |-> TRUE,
         confidence |-> ErrorConfidence,
         symbol |-> "ETH",
         side |-> "sell",
         entryPrice |-> NoneValue,
         stopLoss |-> NoneValue,
         takeProfit |-> NoneValue,
         stopLossPercent |-> HalfPercent,
         takeProfitPercent |-> TwoPercent,
         quantity |-> Quantity,
         leverage |-> 1,
         reasoning |-> [prefix |-> "Error fallback", parts |-> <<[text |-> error_message]>>],
         method |-> "python_error_fallback"]]

(***************************************************************************)
(* The analyzers.  Each is a function of the decoded raster alone; the     *)
(* body of each is wrapped in try/except, and the except branch returns    *)
(* the analyzer's degraded record.  raster.raises is the set of analyzers  *)
(* whose library calls raise on this raster.                               *)
(***************************************************************************)
Analyzers ==
    {"trend_analysis", "existing_trade", "candlestick_patterns",
     "support_resistance", "price_action", "volume_analysis"}

\* line 178: image.shape[0] * image.shape[1]
TotalPixels(raster) == raster.height * raster.width

\* lines 202-204
TrendDegraded == [trend |-> "neutral", confidence |-> DefaultConfidence, error |-> "error"]

\* variant: the larger fraction decides the trend without the 2% floor
TrendRecord_NoFloor(green_pixels, red_pixels, total_pixels) ==
    LET green_ratio == Ratio(green_pixels, total_pixels)
        red_ratio == Ratio(red_pixels, total_pixels)
        bullish == green_pixels > red_pixels
        bearish == red_pixels > green_pixels
    IN  [trend |-> IF bullish THEN "bullish" ELSE IF bearish THEN "bearish" ELSE "neutral",
         confidence |-> IF bullish THEN Min(9500, 6000 + green_ratio * 5)
                        ELSE IF bearish THEN Min(9500, 6000 + red_ratio * 5)
                        ELSE DefaultConfidence,
         green_ratio |-> green_ratio,
         red_ratio |-> red_ratio,
         dominant_color |-> IF green_pixels > red_pixels THEN "green" ELSE "red"]

\* lines 175-200
TrendRecord(green_pixels, red_pixels, total_pixels) ==
    LET green_ratio == Ratio(green_pixels, total_pixels)
        red_ratio == Ratio(red_pixels, total_pixels)
        \* green_ratio > red_ratio and green_ratio > 0.02, compared exactly
        bullish == green_pixels > red_pixels /\ green_pixels * 100 > 2 * total_pixels
        bearish == red_pixels > green_pixels /\ red_pixels * 100 > 2 * total_pixels
    IN  [trend |-> IF bullish THEN "bullish" ELSE IF bearish THEN "bearish" ELSE "neutral",
         confidence |-> IF bullish THEN Min(9500, 6000 + green_ratio * 5)
                        ELSE IF bearish THEN Min(9500, 6000 + red_ratio * 5)
                        ELSE DefaultConfidence,
         green_ratio |-> green_ratio,
         red_ratio |-> red_ratio,
         dominant_color |-> IF green_pixels > red_pixels THEN "green" ELSE "red"]

\* variant: the trend analyzer without its except branch
AnalyzeTrendColors_NoHandler(raster) ==
    IF "trend_analysis" \in raster.raises
    THEN [exception |-> "error"]
    ELSE TrendRecord(raster.green_pixels, raster.red_pixels, TotalPixels(raster))

\* lines 154-204
AnalyzeTrendColors(raster) ==
    IF "trend_analysis" \in raster.raises
    THEN TrendDegraded
    ELSE TrendRecord(raster.green_pixels, raster.red_pixels, TotalPixels(raster))

\* variant: the strength of a level is its place in the transform's output,
\* counted from the end
RECURSIVE HorizontalLevels_StrengthByPlace(_, _, _)
HorizontalLevels_StrengthByPlace(lines, height, width) ==
    IF lines = <<>> THEN <<>>
    ELSE LET line == Head(lines)
             rest == HorizontalLevels_StrengthByPlace(Tail(lines), height, width)
         IN  IF Abs(line.y2 - line.y1) <= 3 /\ Abs(line.x2 - line.x1) >= width \div 4
             THEN <<[y_position |-> Ratio(line.y1 + line.y2, 2),
                     height_ratio |-> Ratio(line.y1 + line.y2, 2) \div height,
                     length |-> Abs(line.x2 - line.x1),
                     strength |-> Min(One, Len(rest) * 1000)]>> \o rest
             ELSE rest

\* lines 248-258: the near-horizontal segments kept as levels, in the transform's order
RECURSIVE HorizontalLevels(_, _, _)
HorizontalLevels(lines, height, width) ==
    IF lines = <<>> THEN <<>>
    ELSE LET line == Head(lines)
             rest == HorizontalLevels(Tail(lines), height, width)
         IN  IF Abs(line.y2 - line.y1) <= 3 /\ Abs(line.x2 - line.x1) >= width \div 4
             THEN <<[y_position |-> Ratio(line.y1 + line.y2, 2),
                     height_ratio |-> Ratio(line.y1 + line.y2, 2) \div height,
                     length |-> Abs(line.x2 - line.x1),
                     strength |-> Ratio(Abs(line.x2 - line.x1), width)]>> \o rest
             ELSE rest

\* list.sort(key=y_position) is stable: insert after the last level not below
RECURSIVE InsertByPosition(_, _)
InsertByPosition(level, sorted) ==
    IF sorted = <<>> THEN <<level>>
    ELSE IF level.y_position < Head(sorted).y_position
         THEN <<level>> \o sorted
         ELSE <<Head(sorted)>> \o InsertByPosition(level, Tail(sorted))

\* line 261
RECURSIVE SortByPosition(_)
SortByPosition(levels) ==
    IF levels = <<>> THEN <<>>
    ELSE InsertByPosition(levels[Len(levels)], SortByPosition(SubSeq(levels, 1, Len(levels) - 1)))

\* lines 340-341 and 349-350: the y_position of the level nearest to the current
\* price among those above it (y smaller) and among those below it (y larger);
\* min(..., key=distance) returns the first of the nearest, which all lie at the
\* same y_position
ClosestAbove(levels, current_price_y) ==
    CHOOSE y \in {levels[i].y_position : i \in DOMAIN levels} :
        /\ y < current_price_y
        /\ \A i \in DOMAIN levels :
              levels[i].y_position < current_price_y => levels[i].y_position <= y

ClosestBelow(levels, current_price_y) ==
    CHOOSE y \in {levels[i].y_position : i \in DOMAIN levels} :
        /\ y > current_price_y
        /\ \A i \in DOMAIN levels :
              levels[i].y_position > current_price_y => levels[i].y_position >= y

\* variant: the target is scaled and not clamped
TakeProfitFromDistance_Unclamped(above_distance) ==
    IF above_distance > 0 THEN above_distance * 10
    ELSE OneAndHalfPercent

\* lines 357-358
TakeProfitFromDistance(above_distance) ==
    IF above_distance > 0 THEN Min(30000, Max(5000, above_distance * 10))
    ELSE OneAndHalfPercent

\* variant: the stop takes the scale and the clamp of the target
StopLossFromDistance_TargetScale(below_distance) ==
    IF below_distance > 0 THEN Min(30000, Max(5000, below_distance * 10))
    ELSE HalfPercent

\* lines 359-360
StopLossFromDistance(below_distance) ==
    IF below_distance > 0 THEN Min(20000, Max(3000, below_distance * 8))
    ELSE HalfPercent

\* lines 333-368
ExtractTradeParameters(levels, image_height) ==
    LET current_price_y == Ratio(image_height, 2)
        levels_above == Cardinality({i \in DOMAIN levels : levels[i].y_position < current_price_y})
        levels_below == Cardinality({i \in DOMAIN levels : levels[i].y_position > current_price_y})
    IN  [stop_loss_percent |->
            IF levels_above > 0 /\ levels_below > 0
            THEN RoundTo(StopLossFromDistance(
                    Abs(ClosestBelow(levels, current_price_y) - current_price_y)
                        \div image_height), 1000)
            ELSE RoundTo(HalfPercent, 1000),
         take_profit_percent |->
            IF levels_above > 0 /\ levels_below > 0
            THEN RoundTo(TakeProfitFromDistance(
                    Abs(ClosestAbove(levels, current_price_y) - current_price_y)
                        \div image_height), 1000)
            ELSE RoundTo(OneAndHalfPercent, 1000),
         levels_above |-> levels_above,
         levels_below |-> levels_below,
         trade_direction |-> "follow_chart_setup"]

\* lines 324-331
ExistingTradeDegraded ==
    [has_existing_trade |-> FALSE, trade_type |-> "new_signal",
     error |-> "error", action |-> "generate_new_signal"]

\* variant: the levels count only together with a colour marker
HasTradeSetup_LevelsNeedMarker(blue_pixels, purple_pixels, total_pixels, level_count) ==
    \/ blue_pixels * 1000 > 2 * total_pixels
    \/ purple_pixels * 1000 > total_pixels
    \/ level_count >= 3 /\ blue_pixels + purple_pixels > 0

\* lines 284-288: densities compared exactly with 0.002 and 0.001
HasTradeSetup(blue_pixels, purple_pixels, total_pixels, level_count) ==
    \/ blue_pixels * 1000 > 2 * total_pixels
    \/ purple_pixels * 1000 > total_pixels
    \/ level_count >= 3

\* variant: a detected setup is reported in the legacy sub-mode
DetectExistingTrade_LegacySubMode(raster) ==
    IF "existing_trade" \in raster.raises
    THEN ExistingTradeDegraded
    ELSE LET total_pixels == TotalPixels(raster)
             horizontal_levels ==
                SortByPosition(HorizontalLevels(raster.trade_lines, raster.height, raster.width))
         IN  IF HasTradeSetup(raster.blue_pixels, raster.purple_pixels, total_pixels,
                              Len(horizontal_levels))
             THEN [has_existing_trade |-> TRUE,
                   trade_type |-> "follow_existing",
                   markers_detected |->
                      [blue_lines |-> raster.blue_pixels,
                       purple_zones |-> raster.purple_pixels,
                       red_lines |-> raster.red_pixels,
                       yellow_lines |-> raster.yellow_pixels,
                       horizontal_levels |-> Len(horizontal_levels),
                       blue_density |-> Ratio(raster.blue_pixels, total_pixels),
                       purple_density |-> Ratio(raster.purple_pixels, total_pixels)],
                   trade_parameters |-> ExtractTradeParameters(horizontal_levels, raster.height),
                   confidence |-> 9000,
                   action |-> "copy_trade_setup"]
             ELSE [has_existing_trade |-> FALSE,
                   trade_type |-> "new_signal",
                   confidence |-> 0,
                   action |-> "generate_new_signal"]

\* lines 206-331
DetectExistingTrade(raster) ==
    IF "existing_trade" \in raster.raises
    THEN ExistingTradeDegraded
    ELSE LET total_pixels == TotalPixels(raster)
             horizontal_levels ==
                SortByPosition(HorizontalLevels(raster.trade_lines, raster.height, raster.width))
         IN  IF HasTradeSetup(raster.blue_pixels, raster.purple_pixels, total_pixels,
                              Len(horizontal_levels))
             THEN [has_existing_trade |-> TRUE,
                   trade_type |-> "copy_existing_setup",
                   markers_detected |->
                      [blue_lines |-> raster.blue_pixels,
                       purple_zones |-> raster.purple_pixels,
                       red_lines |-> raster.red_pixels,
                       yellow_lines |-> raster.yellow_pixels,
                       horizontal_levels |-> Len(horizontal_levels),
                       blue_density |-> Ratio(raster.blue_pixels, total_pixels),
                       purple_density |-> Ratio(raster.purple_pixels, total_pixels)],
                   trade_parameters |-> ExtractTradeParameters(horizontal_levels, raster.height),
                   confidence |-> 9000,
                   action |-> "copy_trade_setup"]
             ELSE [has_existing_trade |-> FALSE,
                   trade_type |-> "new_signal",
                   confidence |-> 0,
                   action |-> "generate_new_signal"]

\* lines 418-420
CandlestickDegraded == [pattern_detected |-> FALSE, error |-> "error"]

\* variant: the pattern confidence is capped at 1.0
CandlestickRecord_CappedAtOne(vertical_count, horizontal_count, total_pixels) ==
    LET candlestick_density == Ratio(vertical_count + horizontal_count, total_pixels)
        detected == (vertical_count + horizontal_count) * 100 > total_pixels
    IN  [pattern_detected |-> detected,
         pattern_type |-> IF detected THEN "standard_candlesticks" ELSE "no_clear_pattern",
         confidence |-> IF detected THEN Min(One, candlestick_density * 50) ELSE 3000,
         candlestick_density |-> candlestick_density]

\* lines 396-416
CandlestickRecord(vertical_count, horizontal_count, total_pixels) ==
    LET candlestick_density == Ratio(vertical_count + horizontal_count, total_pixels)
        \* candlestick_density > 0.01, compared exactly
        detected == (vertical_count + horizontal_count) * 100 > total_pixels
    IN  [pattern_detected |-> detected,
         pattern_type |-> IF detected THEN "standard_candlesticks" ELSE "no_clear_pattern",
         confidence |-> IF detected THEN Min(9000, candlestick_density * 50) ELSE 3000,
         candlestick_density |-> candlestick_density]

\* lines 378-420
DetectCandlestickPatterns(raster) ==
    IF "candlestick_patterns" \in raster.raises
    THEN CandlestickDegraded
    ELSE CandlestickRecord(raster.vertical_count, raster.horizontal_count, TotalPixels(raster))

\* np.sqrt of a sum of squares, to the integer below
ISqrt(n) == CHOOSE r \in 0..n : r * r <= n /\ (r + 1) * (r + 1) > n

\* lines 437-438: the angle of the segment is under 5 or over 175 degrees
\* (tan 5 degrees = 0.08749); arctan2(0, 0) is 0
NearlyHorizontal(line) ==
    LET dx == Abs(line.x2 - line.x1)
        dy == Abs(line.y2 - line.y1)
    IN  IF dx = 0 THEN dy = 0 ELSE dy * 100000 < 8749 * dx

\* lines 432-443: the strength of a level is its place in the list being built
RECURSIVE SupportResistanceLines(_, _)
SupportResistanceLines(lines, horizontal_lines) ==
    IF lines = <<>> THEN horizontal_lines
    ELSE LET line == Head(lines)
             dx == line.x2 - line.x1
             dy == line.y2 - line.y1
         IN  SupportResistanceLines(Tail(lines),
                IF NearlyHorizontal(line)
                THEN Append(horizontal_lines,
                        [y_position |-> (line.y1 + line.y2) \div 2,
                         length |-> ISqrt(dx * dx + dy * dy),
                         strength |-> Min(One, Len(horizontal_lines) * 1000)])
                ELSE horizontal_lines)

\* variant: a level goes in front of the levels of its own strength
RECURSIVE InsertByStrength_TiesFirst(_, _)
InsertByStrength_TiesFirst(level, sorted) ==
    IF sorted = <<>> THEN <<level>>
    ELSE IF level.strength >= Head(sorted).strength
         THEN <<level>> \o sorted
         ELSE <<Head(sorted)>> \o InsertByStrength_TiesFirst(level, Tail(sorted))

\* list.sort(key=strength, reverse=True) is stable
RECURSIVE InsertByStrength(_, _)
InsertByStrength(level, sorted) ==
    IF sorted = <<>> THEN <<level>>
    ELSE IF level.strength > Head(sorted).strength
         THEN <<level>> \o sorted
         ELSE <<Head(sorted)>> \o InsertByStrength(level, Tail(sorted))

\* line 446
RECURSIVE SortByStrength(_)
SortByStrength(levels) ==
    IF levels = <<>> THEN <<>>
    ELSE InsertByStrength(levels[Len(levels)], SortByStrength(SubSeq(levels, 1, Len(levels) - 1)))

\* lines 454-456
SupportResistanceDegraded == [levels_detected |-> 0, error |-> "error"]

\* lines 422-456
FindSupportResistanceLevels(raster) ==
    IF "support_resistance" \in raster.raises
    THEN SupportResistanceDegraded
    ELSE LET horizontal_lines == SortByStrength(SupportResistanceLines(raster.sr_lines, <<>>))
         IN  [levels_detected |-> Len(horizontal_lines),
              strong_levels |-> SubSeq(horizontal_lines, 1, Min(5, Len(horizontal_lines))),
              has_support_resistance |-> Len(horizontal_lines) > 2]

\* lines 473-482: contours of more than 10 points that end above / below their start
UpwardMovement(contours) ==
    Cardinality({i \in DOMAIN contours :
        contours[i].points > 10 /\ contours[i].end_y < contours[i].start_y})

DownwardMovement(contours) ==
    Cardinality({i \in DOMAIN contours :
        contours[i].points > 10 /\ contours[i].end_y > contours[i].start_y})

\* variant: the degraded record names its strength and leaves it empty
PriceActionDegraded_EmptyStrength ==
    [trend_direction |-> "unclear", trend_strength |-> NotANumber, error |-> "error"]

\* lines 508-510
PriceActionDegraded == [trend_direction |-> "unclear", error |-> "error"]

\* variant: a ratio on a threshold counts as beyond it
PriceActionRecord_InclusiveThresholds(upward_movement, downward_movement) ==
    LET total_movement == upward_movement + downward_movement
        upward_ratio == Ratio(upward_movement, total_movement)
        upward == total_movement > 0 /\ upward_movement * 10 >= 6 * total_movement
        downward == total_movement > 0 /\ ~upward /\ upward_movement * 10 <= 4 * total_movement
    IN  [trend_direction |-> IF total_movement = 0 THEN "unclear"
                             ELSE IF upward THEN "upward"
                             ELSE IF downward THEN "downward" ELSE "sideways",
         trend_strength |-> IF total_movement = 0 THEN 3000
                            ELSE IF upward THEN upward_ratio
                            ELSE IF downward THEN One - upward_ratio ELSE 5000,
         upward_movements |-> upward_movement,
         downward_movements |-> downward_movement]

\* lines 484-506: upward_ratio compared exactly with 0.6 and 0.4
PriceActionRecord(upward_movement, downward_movement) ==
    LET total_movement == upward_movement + downward_movement
        upward_ratio == Ratio(upward_movement, total_movement)
        upward == total_movement > 0 /\ upward_movement * 10 > 6 * total_movement
        downward == total_movement > 0 /\ ~upward /\ upward_movement * 10 < 4 * total_movement
    IN  [trend_direction |-> IF total_movement = 0 THEN "unclear"
                             ELSE IF upward THEN "upward"
                             ELSE IF downward THEN "downward" ELSE "sideways",
         trend_strength |-> IF total_movement = 0 THEN 3000
                            ELSE IF upward THEN upward_ratio
                            ELSE IF downward THEN One - upward_ratio ELSE 5000,
         upward_movements |-> upward_movement,
         downward_movements |-> downward_movement]

\* lines 458-510
AnalyzePriceAction(raster) ==
    IF "price_action" \in raster.raises
    THEN PriceActionDegraded
    ELSE PriceActionRecord(UpwardMovement(raster.contours), DownwardMovement(raster.contours))

\* lines 541-543
VolumeDegraded == [volume_present |-> FALSE, error |-> "error"]

\* lines 516-539: the bottom rows from int(height * 0.7) on
VolumeRecord(volume_nonzero, height, width) ==
    LET region_pixels == (height - (height * 7) \div 10) * width
        \* volume_density > 0.005, compared exactly
        present == volume_nonzero * 1000 > 5 * region_pixels
    IN  [volume_present |-> present,
         volume_pattern |-> IF present THEN "bars_detected" ELSE "no_volume_visible",
         volume_density |-> Ratio(volume_nonzero, region_pixels)]

\* lines 512-543
AnalyzeVolumePatterns(raster) ==
    IF "volume_analysis" \in raster.raises
    THEN VolumeDegraded
    ELSE VolumeRecord(raster.volume_nonzero, raster.height, raster.width)

(***************************************************************************)
(* _decode_image, lines 91-152.  The payload records what each decoding    *)
(* stage does with it; a failed decode is None, here NoImage.              *)
(***************************************************************************)
NoImage == EmptyDict

\* the smallest payload, in bytes, that is handed to an image decoder (line 113)
MinimumImageBytes == 100

\* variant: a failed primary decode is reported without trying the raw codec
DecodeSteps_NoSecondary(payload) ==
    IF ~payload.is_str \/ payload.data_url = "no_comma"
    THEN [attempts |-> <<>>, image |-> NoImage]
    ELSE IF ~payload.base64_valid \/ payload.byte_length < MinimumImageBytes
    THEN [attempts |-> <<"base64">>, image |-> NoImage]
    ELSE IF payload.pil_ok
    THEN [attempts |-> <<"base64", "primary">>, image |-> payload.raster]
    ELSE [attempts |-> <<"base64", "primary">>, image |-> NoImage]

\* lines 91-152: the decoders _decode_image calls, in the order it calls them,
\* and what it returns
DecodeSteps(payload) ==
    IF ~payload.is_str                                     \* lines 150-152
    THEN [attempts |-> <<>>, image |-> NoImage]
    ELSE IF payload.data_url = "no_comma"                  \* lines 95-100
    THEN [attempts |-> <<>>, image |-> NoImage]
    ELSE IF ~payload.base64_valid                          \* lines 106-110
    THEN [attempts |-> <<"base64">>, image |-> NoImage]
    ELSE IF payload.byte_length < MinimumImageBytes        \* lines 113-115
    THEN [attempts |-> <<"base64">>, image |-> NoImage]
    ELSE IF payload.pil_ok                                 \* lines 122-134
    THEN [attempts |-> <<"base64", "primary">>, image |-> payload.raster]
    ELSE IF payload.imdecode_ok                            \* lines 136-145
    THEN [attempts |-> <<"base64", "primary", "secondary">>, image |-> payload.raster]
    ELSE [attempts |-> <<"base64", "primary", "secondary">>,   \* lines 146-152
          image |-> NoImage]

DecodeImage(payload) == DecodeSteps(payload).image

(***************************************************************************)
(* Bounds and the inputs drawn within them                                 *)
(***************************************************************************)
\* the most analyzers whose library calls raise on one raster
MaxFaults == 1

\* the most calls made on the one analyzer instance
MaxInvocations == 2

\* the shape of the sampled rasters
SampleHeight == 20
SampleWidth == 50

HLine(y) == [x1 |-> 0, y1 |-> y, x2 |-> SampleWidth - 1, y2 |-> y]

\* (green_pixels, red_pixels): none, bullish, bearish, weakly bullish, equal,
\* green exactly at the 2% floor of a SampleHeight x SampleWidth raster
ColourSamples == {<<0, 0>>, <<300, 30>>, <<30, 300>>, <<30, 0>>, <<30, 30>>, <<20, 5>>}

\* (blue_pixels, purple_pixels, yellow_pixels): none, blue above its threshold,
\* purple above its threshold, blue and purple exactly at their thresholds
MarkerSamples == {<<0, 0, 0>>, <<5, 0, 0>>, <<0, 2, 7>>, <<2, 1, 7>>}

\* segments of the line transform of _detect_existing_trade
TradeLineSamples ==
    {<<>>,
     <<HLine(13), HLine(8)>>,
     <<HLine(13), [x1 |-> 0, y1 |-> 0, x2 |-> 30, y2 |-> 15], HLine(8), HLine(2)>>}

\* (vertical_count, horizontal_count)
CandleSamples == {<<0, 0>>, <<10, 5>>, <<120, 80>>}

\* segments of the line transform of _find_support_resistance_levels
SupportResistanceSamples ==
    {<<>>, <<HLine(3), HLine(9), [x1 |-> 0, y1 |-> 0, x2 |-> 40, y2 |-> 19], HLine(15)>>}

Contour(points, start_y, end_y) == [points |-> points, start_y |-> start_y, end_y |-> end_y]

ContourSamples ==
    {<<>>,
     <<Contour(12, 9, 3), Contour(40, 15, 2), Contour(4, 1, 8)>>,
     <<Contour(12, 3, 9), Contour(11, 5, 5), Contour(20, 2, 18)>>,
     <<Contour(12, 9, 3), Contour(12, 3, 9)>>,
     <<Contour(12, 9, 3), Contour(12, 3, 9), Contour(30, 12, 1)>>}

VolumeSamples == {0, 30}

\* the non-empty sets of analyzers that fail together
FaultSets == {f \in SUBSET Analyzers : f # {} /\ Cardinality(f) <= MaxFaults}

RasterOf(c, m, t, k, s, p, v, f) ==
    [height |-> SampleHeight, width |-> SampleWidth,
     green_pixels |-> c[1], red_pixels |-> c[2],
     blue_pixels |-> m[1], purple_pixels |-> m[2], yellow_pixels |-> m[3],
     trade_lines |-> t,
     vertical_count |-> k[1], horizontal_count |-> k[2],
     sr_lines |-> s, contours |-> p, volume_nonzero |-> v, raises |-> f]

\* rasters on which no library call raises
CleanRasters ==
    {RasterOf(c, m, t, k, s, p, v, {}) :
        c \in ColourSamples, m \in MarkerSamples, t \in TradeLineSamples,
        k \in CandleSamples, s \in SupportResistanceSamples, p \in ContourSamples,
        v \in VolumeSamples}

\* rasters on which the library calls of some analyzers raise
FaultyRasters ==
    {RasterOf(c, m, <<>>, k, s, p, 30, f) :
        c \in {<<0, 0>>, <<30, 300>>}, m \in {<<0, 0, 0>>, <<5, 0, 0>>},
        k \in {<<0, 0>>, <<10, 5>>}, s \in SupportResistanceSamples,
        p \in {<<>>, <<Contour(12, 9, 3), Contour(40, 15, 2), Contour(4, 1, 8)>>},
        f \in FaultSets}

\* a segment from (0, y1) to (SampleWidth - 1, y2)
FlatLine(y1, y2) == [x1 |-> 0, y1 |-> y1, x2 |-> SampleWidth - 1, y2 |-> y2]

\* level layouts for _extract_trade_parameters: a level on the midpoint of a
\* raster of SampleHeight rows with one level on each side, levels half a row
\* from the midpoint, levels far from it, levels on one side only, one level
\* on the midpoint alone, levels of three lengths with the shortest first
LevelSamples ==
    {<<HLine(13), FlatLine(7, 8), HLine(10)>>,
     <<[x1 |-> 0, y1 |-> 11, x2 |-> 12, y2 |-> 12], [x1 |-> 5, y1 |-> 16, x2 |-> 30, y2 |-> 16],
       HLine(4)>>,
     <<FlatLine(9, 10), FlatLine(10, 11)>>,
     <<HLine(2), HLine(19)>>,
     <<HLine(12), HLine(14), HLine(17)>>,
     <<HLine(10)>>}

\* the heights of the rasters the level layouts are drawn on
LevelHeights == {SampleHeight, SampleHeight + 3}

\* rasters that differ in their trade markers and levels only
TradeSetupRasters ==
    {[RasterOf(c, m, t, <<0, 0>>, <<>>, <<>>, 0, {}) EXCEPT !.height = h] :
        c \in {<<0, 0>>, <<30, 300>>}, m \in MarkerSamples, t \in LevelSamples,
        h \in LevelHeights}

\* the most contours of one raster that end above their start, and the most
\* that end below it
MaxMovements == 5

\* rising rising contours and falling falling ones, each of more than 10
\* points, then a rising contour of exactly 10 points and a level one
MovementContours(rising, falling) ==
    [i \in 1..(rising + falling + 2) |->
        IF i <= rising THEN Contour(11 + i, 9, 3)
        ELSE IF i <= rising + falling THEN Contour(11 + i, 3, 9)
        ELSE IF i = rising + falling + 1 THEN Contour(10, 9, 3)
        ELSE Contour(15, 5, 5)]

\* rasters that differ in their contours only
MovementRasters ==
    {RasterOf(<<0, 0>>, <<0, 0, 0>>, <<>>, <<0, 0>>, <<>>, MovementContours(u, d), 0, {}) :
        u \in 0..MaxMovements, d \in 0..MaxMovements}

\* the most near-horizontal segments the line transform of
\* _find_support_resistance_levels returns on one raster
MaxLevels == 12

\* the i-th near-horizontal segment: row i, level or one row down over its
\* length, and of one of three lengths
SupportLine(i) ==
    [x1 |-> 0, y1 |-> i, x2 |-> SampleWidth - 1 - 5 * (i % 3), y2 |-> i + (i % 2)]

\* a segment too steep to be a level
SteepLine(i) == [x1 |-> 0, y1 |-> 0, x2 |-> 10 + i, y2 |-> SampleHeight - 1]

\* count near-horizontal segments, a steep segment after each
SupportLines(count) ==
    [i \in 1..(2 * count) |->
        IF i % 2 = 1 THEN SupportLine((i + 1) \div 2) ELSE SteepLine(i \div 2)]

\* rasters that differ in their support/resistance segments only
SupportRasters ==
    {RasterOf(<<0, 0>>, <<0, 0, 0>>, <<>>, <<0, 0>>, SupportLines(n), <<>>, 0, {}) :
        n \in 0..MaxLevels}

Rasters ==
    CleanRasters \cup FaultyRasters \cup TradeSetupRasters \cup MovementRasters
        \cup SupportRasters

\* a raster with no colour, no edges and no fault
BlackRaster ==
    [height |-> SampleHeight, width |-> SampleWidth,
     green_pixels |-> 0, red_pixels |-> 0,
     blue_pixels |-> 0, purple_pixels |-> 0, yellow_pixels |-> 0,
     trade_lines |-> <<>>, vertical_count |-> 0, horizontal_count |-> 0,
     sr_lines |-> <<>>, contours |-> <<>>, volume_nonzero |-> 0, raises |-> {}]

Payload(is_str, data_url, base64_valid, byte_length, pil_ok, imdecode_ok, raster) ==
    [is_str |-> is_str, data_url |-> data_url, base64_valid |-> base64_valid,
     byte_length |-> byte_length, pil_ok |-> pil_ok, imdecode_ok |-> imdecode_ok,
     raster |-> raster]

Payloads ==
    {Payload(TRUE, "none", TRUE, 100, TRUE, TRUE, r) : r \in Rasters}
    \cup {Payload(TRUE, "with_comma", TRUE, 4096, FALSE, TRUE, BlackRaster),
          Payload(TRUE, "with_comma", TRUE, 4096, FALSE, FALSE, NoImage),
          Payload(TRUE, "none", TRUE, 99, TRUE, TRUE, NoImage),
          Payload(TRUE, "none", FALSE, 0, FALSE, FALSE, NoImage),
          Payload(TRUE, "no_comma", FALSE, 0, FALSE, FALSE, NoImage),
          Payload(FALSE, "none", FALSE, 0, FALSE, FALSE, NoImage)}

\* hand-built records for a direct call of _generate_trading_signal
HandBuiltExistingTrade ==
    {EmptyDict,
     [has_existing_trade |-> FALSE],
     [has_existing_trade |-> TRUE],
     [has_existing_trade |-> TRUE, trade_type |-> "follow_existing",
      trade_parameters |-> [stop_loss_percent |-> 8000, take_profit_percent |-> 12000]],
     [has_existing_trade |-> TRUE, trade_type |-> "copy_existing_setup"],
     [has_existing_trade |-> TRUE, trade_type |-> "copy_existing_setup",
      trade_parameters |-> [stop_loss_percent |-> 8000, take_profit_percent |-> 12000]]}

HandBuiltTrend ==
    {EmptyDict,
     [trend |-> "neutral", confidence |-> 5000],
     [trend |-> "bearish", confidence |-> 9000],
     [trend |-> "bullish"],
     [trend |-> "bullish", confidence |-> NotANumber]}

HandBuiltPatterns ==
    {EmptyDict, [pattern_detected |-> TRUE], [pattern_detected |-> TRUE, confidence |-> 9000]}

HandBuiltLevels == {EmptyDict, [has_support_resistance |-> TRUE]}

HandBuiltPriceAction ==
    {EmptyDict,
     [trend_direction |-> "upward", trend_strength |-> One],
     [trend_direction |-> "downward", trend_strength |-> 8000]}

HandBuiltVolume == {EmptyDict, [volume_present |-> TRUE]}

HandBuiltAnalyses ==
    {EmptyDict}
    \cup {[trend_analysis |-> t, existing_trade |-> e, candlestick_patterns |-> c,
           support_resistance |-> l, price_action |-> p, volume_analysis |-> v] :
            t \in HandBuiltTrend, e \in HandBuiltExistingTrade, c \in HandBuiltPatterns,
            l \in HandBuiltLevels, p \in HandBuiltPriceAction, v \in HandBuiltVolume}

(***************************************************************************)
(* analyze_chart_image, lines 17-89, step by step; and a direct call of    *)
(* _generate_trading_signal                                                *)
(***************************************************************************)
Init ==
    /\ pc = "idle"
    /\ image_data = EmptyDict
    /\ image = NoImage
    /\ analysis_results = EmptyDict
    /\ trading_signal = EmptyDict
    /\ result = EmptyDict
    /\ decode_attempts = <<>>
    /\ invocations = 0

\* an exception leaving a callee: what a call evaluates to when its body raises
\* and no handler of its own catches it
RaisedException == [exception |-> "error"]

Raised(value) == "exception" \in DOMAIN value

\* variant: the call goes on to the analyzers whatever the decode returned
AnalyzeChartImage_NoDecodeCheck(payload) ==
    /\ pc = "idle"
    /\ invocations < MaxInvocations
    /\ invocations' = invocations + 1
    /\ image_data' = payload
    /\ image' = DecodeImage(payload)
    /\ decode_attempts' = DecodeSteps(payload).attempts
    /\ pc' = "trend_analysis"
    /\ UNCHANGED <<analysis_results, trading_signal, result>>

\* lines 27-37: the call, the decode, and the return of the error response
AnalyzeChartImage(payload) ==
    /\ pc = "idle"
    /\ invocations < MaxInvocations
    /\ invocations' = invocations + 1
    /\ image_data' = payload
    /\ image' = DecodeImage(payload)
    /\ decode_attempts' = DecodeSteps(payload).attempts
    /\ IF image' = NoImage
       THEN /\ result' = CreateErrorResponse("Failed to decode image")
            /\ pc' = "done"
       ELSE /\ result' = result
            /\ pc' = "trend_analysis"
    /\ UNCHANGED <<analysis_results, trading_signal>>

\* variant: the call of an analyzer leaves its marks on the raster it was given
Store_DrawsOnRaster(key, record, next) ==
    /\ pc = key
    /\ analysis_results' = (key :> record) @@ analysis_results
    /\ pc' = next
    /\ image' = [image EXCEPT !.vertical_count = @ + image.green_pixels,
                              !.green_pixels = 0]
    /\ UNCHANGED <<image_data, trading_signal, result, decode_attempts, invocations>>

\* the call of one analyzer and the assignment of its record to its local
\* variable; an exception it lets through reaches the handler of lines 87-89
Store(key, record, next) ==
    /\ pc = key
    /\ IF Raised(record)
       THEN /\ result' = CreateErrorResponse("Analysis failed")
            /\ pc' = "done"
            /\ UNCHANGED analysis_results
       ELSE /\ analysis_results' = (key :> record) @@ analysis_results
            /\ pc' = next
            /\ UNCHANGED result
    /\ UNCHANGED <<image_data, image, trading_signal, decode_attempts, invocations>>

\* line 41
RunTrendAnalysis == Store("trend_analysis", AnalyzeTrendColors(image), "existing_trade")

\* line 45
RunExistingTrade == Store("existing_trade", DetectExistingTrade(image), "candlestick_patterns")

\* line 49
RunCandlestickPatterns ==
    Store("candlestick_patterns", DetectCandlestickPatterns(image), "support_resistance")

\* line 53
RunSupportResistance ==
    Store("support_resistance", FindSupportResistanceLevels(image), "price_action")

\* variant: fusion starts as soon as the price-action record is in
RunPriceAction_StartsFusion == Store("price_action", AnalyzePriceAction(image), "fusion")

\* line 57
RunPriceAction == Store("price_action", AnalyzePriceAction(image), "volume_analysis")

\* line 61
RunVolumeAnalysis == Store("volume_analysis", AnalyzeVolumePatterns(image), "fusion")

\* lines 79-85
SuccessResponse(analysis, signal) ==
    [success |-> TRUE,
     analysis |-> analysis,
     trading_signal |-> signal,
     confidence |-> Get(signal, "confidence", 7500),
     method |-> "python_cv_analysis"]

\* lines 64-89: fusion over the six records, and the return
GenerateSignalAndReturn ==
    /\ pc = "fusion"
    /\ LET signal == GenerateTradingSignal(analysis_results)
       IN  IF Raised(signal)
           THEN /\ result' = CreateErrorResponse("Analysis failed")
                /\ UNCHANGED trading_signal
           ELSE /\ trading_signal' = signal
                /\ result' = SuccessResponse(analysis_results, signal)
    /\ pc' = "done"
    /\ UNCHANGED <<image_data, image, analysis_results, decode_attempts, invocations>>

\* _generate_trading_signal called with hand-built records
CallGenerateTradingSignal(analysis) ==
    /\ pc = "idle"
    /\ invocations < MaxInvocations
    /\ invocations' = invocations + 1
    /\ analysis_results' = analysis
    /\ trading_signal' = GenerateTradingSignal(analysis)
    /\ pc' = "fused"
    /\ UNCHANGED <<image_data, image, result, decode_attempts>>

\* variant: the records of a call stay behind for the next call
Return_KeepsRecords ==
    /\ pc \in {"done", "fused"}
    /\ pc' = "idle"
    /\ image_data' = EmptyDict
    /\ image' = NoImage
    /\ trading_signal' = EmptyDict
    /\ result' = EmptyDict
    /\ decode_attempts' = <<>>
    /\ UNCHANGED <<analysis_results, invocations>>

\* the caller has the returned value and the frame of the call is gone: every
\* variable of the call was a local, and the instance holds nothing but its
\* logger (line 15), so the next call starts from the state after construction
Return ==
    /\ pc \in {"done", "fused"}
    /\ pc' = "idle"
    /\ image_data' = EmptyDict
    /\ image' = NoImage
    /\ analysis_results' = EmptyDict
    /\ trading_signal' = EmptyDict
    /\ result' = EmptyDict
    /\ decode_attempts' = <<>>
    /\ UNCHANGED invocations

\* the steps of a call of analyze_chart_image after its decode
PipelineStep ==
    \/ RunTrendAnalysis
    \/ RunExistingTrade
    \/ RunCandlestickPatterns
    \/ RunSupportResistance
    \/ RunPriceAction
    \/ RunVolumeAnalysis
    \/ GenerateSignalAndReturn

Next ==
    \/ \E payload \in Payloads : AnalyzeChartImage(payload)
    \/ PipelineStep
    \/ \E analysis \in HandBuiltAnalyses : CallGenerateTradingSignal(analysis)
    \/ Return

Spec == Init /\ [][Next]_vars

(***************************************************************************)
(* Python floats.  The numbers of the analyzers and of the fusion engine   *)
(* are Python floats, IEEE 754 binary64: every division, product, sum and  *)
(* difference is rounded to 53 significant bits, to the nearest, ties to   *)
(* even.  A float x is held here exactly, as the natural number x * 2^64   *)
(* written in limbs of 14 bits, the lowest first; that covers the floats   *)
(* from 2^-12 up that the confidences and the score take, and zero.        *)
(***************************************************************************)
LimbBits == 14

LimbBase == 2^LimbBits

\* a float is held as a multiple of 2^-FractionBits
FractionBits == 64

\* the significant bits of a binary64 number
SignificandBits == 53

Limb(a, i) == IF i >= 1 /\ i <= Len(a) THEN a[i] ELSE 0

\* the limbs of the number whose limbs, before carrying, are a
RECURSIVE Carry(_, _)
Carry(a, c) ==
    IF a = <<>> THEN (IF c = 0 THEN <<>> ELSE Carry(<<c>>, 0))
    ELSE <<(Head(a) + c) % LimbBase>> \o Carry(Tail(a), (Head(a) + c) \div LimbBase)

\* without its leading zero limbs
RECURSIVE Trim(_)
Trim(a) == IF a # <<>> /\ a[Len(a)] = 0 THEN Trim(SubSeq(a, 1, Len(a) - 1)) ELSE a

BigAdd(a, b) == Trim(Carry([i \in 1..Max(Len(a), Len(b)) |-> Limb(a, i) + Limb(b, i)], 0))

\* a - b for a >= b
RECURSIVE Borrow(_, _)
Borrow(a, c) ==
    IF a = <<>> THEN <<>>
    ELSE <<(Head(a) + c + LimbBase) % LimbBase>>
            \o Borrow(Tail(a), IF Head(a) + c < 0 THEN 0 - 1 ELSE 0)

BigSub(a, b) == Trim(Borrow([i \in 1..Max(Len(a), Len(b)) |-> Limb(a, i) - Limb(b, i)], 0))

RECURSIVE Column(_, _, _, _)
Column(a, b, k, i) ==
    IF i > Len(a) THEN 0 ELSE a[i] * Limb(b, k + 1 - i) + Column(a, b, k, i + 1)

BigMul(a, b) == Trim(Carry([k \in 1..(Len(a) + Len(b)) |-> Column(a, b, k, 1)], 0))

RECURSIVE BigLess(_, _, _)
BigLess(a, b, i) ==
    IF i = 0 THEN FALSE
    ELSE IF Limb(a, i) # Limb(b, i) THEN Limb(a, i) < Limb(b, i)
    ELSE BigLess(a, b, i - 1)

\* the number of bits of a
BitLength(a) ==
    LET t == Trim(a)
    IN  IF t = <<>> THEN 0
        ELSE LimbBits * (Len(t) - 1)
                + (CHOOSE n \in 1..LimbBits : 2^n > t[Len(t)] /\ 2^(n - 1) <= t[Len(t)])

\* bit n of a, the lowest being bit 0
Bit(a, n) == (Limb(a, n \div LimbBits + 1) \div 2^(n % LimbBits)) % 2

\* a * 2^k
ShiftLeft(a, k) ==
    LET q == k \div LimbBits
        r == k % LimbBits
    IN  Trim(Carry([i \in 1..(Len(a) + q) |-> IF i <= q THEN 0 ELSE a[i - q] * 2^r], 0))

\* a / 2^k, to the integer below
ShiftRight(a, k) ==
    LET q == k \div LimbBits
        r == k % LimbBits
    IN  Trim([i \in 1..Max(0, Len(a) - q) |->
                (Limb(a, i + q) \div 2^r) + (Limb(a, i + q + 1) % 2^r) * 2^(LimbBits - r)])

\* some bit of a below bit k is set
Sticky(a, k) ==
    \/ \E i \in 1..Len(a) : i <= k \div LimbBits /\ a[i] # 0
    \/ Limb(a, k \div LimbBits + 1) % 2^(k % LimbBits) # 0

\* a / 2^k to the nearest integer, ties to even
RoundShift(a, k) ==
    IF k = 0 THEN Trim(a)
    ELSE IF Bit(a, k - 1) = 1 /\ (Sticky(a, k - 1) \/ Bit(a, k) = 1)
         THEN BigAdd(ShiftRight(a, k), <<1>>)
         ELSE ShiftRight(a, k)

\* a rounded to SignificandBits significant bits
RoundToDouble(a) ==
    LET n == BitLength(a)
    IN  IF n <= SignificandBits THEN Trim(a)
        ELSE ShiftLeft(RoundShift(a, n - SignificandBits), n - SignificandBits)

RECURSIVE DivFrom(_, _, _, _)
DivFrom(a, d, i, rem) ==
    IF i = 0 THEN [quotient |-> <<>>, remainder |-> rem]
    ELSE LET cur == rem * LimbBase + a[i]
             lower == DivFrom(a, d, i - 1, cur % d)
         IN  [quotient |-> Append(lower.quotient, cur \div d), remainder |-> lower.remainder]

\* a / d to the nearest integer, ties to even
RoundDiv(a, d) ==
    LET qr == DivFrom(a, d, Len(a), 0)
        q == Trim(qr.quotient)
    IN  IF 2 * qr.remainder > d \/ (2 * qr.remainder = d /\ Limb(q, 1) % 2 = 1)
        THEN BigAdd(q, <<1>>) ELSE q

\* the float n / d of integers 0 <= n <= d, and the float of a decimal literal
\* n / d: the binary64 number nearest to the quotient
Float(n, d) ==
    IF n = 0 THEN <<>>
    ELSE LET e == CHOOSE e \in 0..(FractionBits - SignificandBits + 1) :
                        n * 2^e >= d /\ n * 2^e < 2 * d
         IN  ShiftLeft(RoundDiv(ShiftLeft(Carry(<<n>>, 0), SignificandBits - 1 + e), d),
                       FractionBits - (SignificandBits - 1) - e)

\* the float of a small integer
FloatOfInt(n) == ShiftLeft(Carry(<<n>>, 0), FractionBits)

FloatAdd(x, y) == RoundToDouble(BigAdd(x, y))

\* x - y for x >= y
FloatSub(x, y) == RoundToDouble(BigSub(x, y))

FloatMul(x, y) == ShiftRight(RoundToDouble(BigMul(x, y)), FractionBits)

FloatLess(x, y) == BigLess(x, y, Max(Len(x), Len(y)))

FloatMax(x, y) == IF FloatLess(x, y) THEN y ELSE x

FloatMin(x, y) == IF FloatLess(y, x) THEN y ELSE x

(***************************************************************************)
(* The confidences of the analyzers and the score of the fusion engine in  *)
(* floats.  The labels (trend, pattern_detected, trend_direction, the      *)
(* path) are those of the definitions above; the numbers are computed as   *)
(* the source computes them.                                               *)
(***************************************************************************)
\* variant: the trend confidence is capped at 1.0
FloatTrendConfidence_CappedAtOne(raster) ==
    LET trend == AnalyzeTrendColors(raster).trend
        pixels == IF trend = "bullish" THEN raster.green_pixels ELSE raster.red_pixels
    IN  IF trend = "neutral" THEN Float(DefaultConfidence, One)
        ELSE FloatMin(FloatOfInt(1),
                      FloatAdd(Float(6000, One),
                               FloatMul(Float(pixels, TotalPixels(raster)), FloatOfInt(5))))

\* lines 180-192: min(0.95, 0.6 + ratio * 5), or 0.5
FloatTrendConfidence(raster) ==
    LET trend == AnalyzeTrendColors(raster).trend
        pixels == IF trend = "bullish" THEN raster.green_pixels ELSE raster.red_pixels
    IN  IF trend = "neutral" THEN Float(DefaultConfidence, One)
        ELSE FloatMin(Float(9500, One),
                      FloatAdd(Float(6000, One),
                               FloatMul(Float(pixels, TotalPixels(raster)), FloatOfInt(5))))

\* lines 400-409: min(0.9, candlestick_density * 50), or 0.3
FloatPatternConfidence(raster) ==
    IF DetectCandlestickPatterns(raster).pattern_detected
    THEN FloatMin(Float(9000, One),
                  FloatMul(Float(raster.vertical_count + raster.horizontal_count,
                                 TotalPixels(raster)),
                           FloatOfInt(50)))
    ELSE Float(3000, One)

\* lines 484-499: upward_ratio, 1 - upward_ratio, 0.5 or 0.3
FloatTrendStrength(raster) ==
    LET trend_direction == AnalyzePriceAction(raster).trend_direction
        upward_movement == UpwardMovement(raster.contours)
        total_movement == upward_movement + DownwardMovement(raster.contours)
    IN  CASE trend_direction = "upward" -> Float(upward_movement, total_movement)
          [] trend_direction = "downward" ->
                FloatSub(FloatOfInt(1), Float(upward_movement, total_movement))
          [] trend_direction = "sideways" -> Float(5000, One)
          [] OTHER -> Float(3000, One)

\* lines 41-71: the records of the analyzers on a raster on which no library
\* call raises, their confidences in floats
FloatRecords(raster) ==
    [trend_analysis |->
        [trend |-> AnalyzeTrendColors(raster).trend,
         confidence |-> FloatTrendConfidence(raster)],
     existing_trade |-> DetectExistingTrade(raster),
     candlestick_patterns |->
        [pattern_detected |-> DetectCandlestickPatterns(raster).pattern_detected,
         confidence |-> FloatPatternConfidence(raster)],
     support_resistance |-> FindSupportResistanceLevels(raster),
     price_action |->
        [trend_direction |-> AnalyzePriceAction(raster).trend_direction,
         trend_strength |-> FloatTrendStrength(raster)],
     volume_analysis |-> AnalyzeVolumePatterns(raster)]

\* lines 656-719: signal_strength after the five scoring steps
FloatSignalStrength(trend, patterns, levels, price_action) ==
    LET trend_directed == trend.trend \in {"bearish", "bullish"}
        price_directed == price_action.trend_direction \in {"downward", "upward"}
        after_trend ==
            IF trend_directed
            THEN FloatAdd(<<>>, FloatMul(Float(TrendWeight, One), trend.confidence))
            ELSE <<>>
        after_patterns ==
            IF patterns.pattern_detected
            THEN FloatAdd(after_trend, FloatMul(Float(PatternWeight, One), patterns.confidence))
            ELSE after_trend
        after_price_action ==
            IF price_directed
            THEN FloatAdd(after_patterns,
                          FloatMul(Float(PriceActionWeight, One), price_action.trend_strength))
            ELSE after_patterns
        after_levels ==
            IF levels.has_support_resistance
            THEN FloatAdd(after_price_action, Float(LevelsBoost, One))
            ELSE after_price_action
    IN  IF trend_directed \/ price_directed
        THEN after_levels
        ELSE FloatMax(Float(DefaultBiasStrength, One), after_levels)

\* lines 564-775: the signal of the fusion engine on FloatRecords, with its
\* confidence in floats and the fields that do not hold a float left out
FloatGenerateTradingSignal(analysis) ==
    LET path == FusionPath([existing_trade |-> analysis.existing_trade])
        signal_strength ==
            FloatSignalStrength(analysis.trend_analysis, analysis.candlestick_patterns,
                                analysis.support_resistance, analysis.price_action)
    IN  IF path = "copy"
        THEN [isSignal |-> TRUE,
              confidence |-> Float(CopyConfidence, One),
              side |-> "copy",
              method |-> "copy_existing_trade"]
        ELSE [isSignal |-> TRUE,
              confidence |-> FloatMax(Float(MinimumConfidence, One), signal_strength),
              side |-> Accumulate(
                          [trend |-> analysis.trend_analysis.trend],
                          EmptyDict,
                          EmptyDict,
                          [trend_direction |-> analysis.price_action.trend_direction]
                       ).signal_direction,
              method |-> "python_computer_vision",
              total_signal_strength |-> signal_strength]

\* the rasters the floats are computed on: no fault, no trade lines
FloatRasters ==
    {RasterOf(c, m, <<>>, k, s, p, 0, {}) :
        c \in ColourSamples, m \in {<<0, 0, 0>>, <<5, 0, 0>>}, k \in CandleSamples,
        s \in SupportResistanceSamples, p \in ContourSamples}

\* the payloads the floats are computed on
FloatPayloads ==
    {Payload(TRUE, "none", TRUE, 100, TRUE, TRUE, r) : r \in FloatRasters}
    \cup {Payload(TRUE, "none", TRUE, 99, TRUE, TRUE, NoImage),
          Payload(FALSE, "none", FALSE, 0, FALSE, FALSE, NoImage)}

\* lines 795-815, the confidence a float
FloatErrorResponse(error_message) ==
    [CreateErrorResponse(error_message) EXCEPT
        !.trading_signal.confidence = Float(ErrorConfidence, One)]

\* lines 27-85 in floats: the decode and the return of the error response, or
\* the six records, the fusion and the return
AnalyzeInFloats(payload) ==
    /\ pc = "idle"
    /\ invocations < MaxInvocations
    /\ invocations' = invocations + 1
    /\ image_data' = payload
    /\ image' = DecodeImage(payload)
    /\ decode_attempts' = DecodeSteps(payload).attempts
    /\ IF image' = NoImage
       THEN /\ result' = FloatErrorResponse("Failed to decode image")
            /\ UNCHANGED <<analysis_results, trading_signal>>
       ELSE /\ analysis_results' = FloatRecords(image')
            /\ trading_signal' = FloatGenerateTradingSignal(analysis_results')
            /\ result' = [success |-> TRUE,
                          analysis |-> analysis_results',
                          trading_signal |-> trading_signal',
                          confidence |-> trading_signal'.confidence,
                          method |-> "python_cv_analysis"]
    /\ pc' = "done"

FloatNext ==
    \/ \E payload \in FloatPayloads : AnalyzeInFloats(payload)
    \/ Return

FloatSpec == Init /\ [][FloatNext]_vars

(***************************************************************************)
(* Properties                                                              *)
(***************************************************************************)
\* analyze_chart_image has returned
Returned == pc = "done"

\* _generate_trading_signal has returned, inside the pipeline or called directly
Fused == (pc = "done" /\ result.success) \/ pc = "fused"

\* the records the fusion engine was given
Record(key) == Get(analysis_results, key, EmptyDict)

WeightedPath == Fused /\ trading_signal.method = "python_computer_vision"

ExistingTradeFired == Get(Record("existing_trade"), "has_existing_trade", FALSE)

CopySubMode ==
    Get(Record("existing_trade"), "trade_type", "follow_existing") = "copy_existing_setup"

\* C1: every trading signal analyze_chart_image returns, and every signal the
\* fusion engine emits for any records, has confidence >= 0.75.
C1_ConfidenceAtLeastFloor ==
    /\ Returned => result.trading_signal.confidence >= 7500
    /\ Fused => trading_signal.confidence >= 7500

\* C1 witness: a returned weighted-path signal whose raw score was below 0.75
C1_Witness ==
    /\ Returned /\ result.success
    /\ result.trading_signal.method = "python_computer_vision"
    /\ result.trading_signal.analysis_details.total_signal_strength < 7500
    /\ result.trading_signal.confidence = 7500

\* a call of analyze_chart_image is past its decode and has not returned
InProgress == pc \in Analyzers \cup {"fusion"}

\* the statements a call at position `label` still has to run before it returns
StepsLeft(label) ==
    CASE label = "trend_analysis" -> 7
      [] label = "existing_trade" -> 6
      [] label = "candlestick_patterns" -> 5
      [] label = "support_resistance" -> 4
      [] label = "price_action" -> 3
      [] label = "volume_analysis" -> 2
      [] label = "fusion" -> 1
      [] OTHER -> 0

\* what analyze_chart_image returns carries a usable signal
ResultCarriesSignal ==
    /\ "trading_signal" \in DOMAIN result
    /\ {"isSignal", "side", "confidence"} \subseteq DOMAIN result.trading_signal
    /\ result.trading_signal.isSignal = TRUE
    /\ result.trading_signal.side \in {"buy", "sell", "copy", "follow"}
    /\ result.trading_signal.confidence \in 0..One

\* C2: for every input, a call of analyze_chart_image ends by returning a result
\* that carries a trading signal with isSignal true, a side and a confidence:
\* the call is only ever at a statement of the pipeline or returned (an exception
\* reaching the caller would leave it elsewhere), every step of a call in
\* progress brings it nearer to its return, and what it returns has the signal.
C2_AlwaysReturnsSignal ==
    /\ [](pc \in {"idle", "done", "fused"} \cup Analyzers \cup {"fusion"})
    /\ [][InProgress => (pc' = "done" \/ (InProgress' /\ StepsLeft(pc') < StepsLeft(pc)))]_vars
    /\ [](Returned => ResultCarriesSignal)

\* C2 witness: a call on an undecodable payload has returned the error response
C2_Witness ==
    /\ Returned /\ ~result.success
    /\ ~image_data.is_str
    /\ result.trading_signal.isSignal

\* the record analyzer `key` produces on `raster`
AnalyzerRecord(key, raster) ==
    CASE key = "trend_analysis" -> AnalyzeTrendColors(raster)
      [] key = "existing_trade" -> DetectExistingTrade(raster)
      [] key = "candlestick_patterns" -> DetectCandlestickPatterns(raster)
      [] key = "support_resistance" -> FindSupportResistanceLevels(raster)
      [] key = "price_action" -> AnalyzePriceAction(raster)
      [] key = "volume_analysis" -> AnalyzeVolumePatterns(raster)

\* the neutral default the claim documents for each analyzer
IsNeutralDefault(key, record) ==
    CASE key = "trend_analysis" ->
            "trend" \in DOMAIN record /\ record.trend = "neutral"
            /\ "confidence" \in DOMAIN record /\ record.confidence = 5000
      [] key = "existing_trade" ->
            "has_existing_trade" \in DOMAIN record /\ record.has_existing_trade = FALSE
      [] key = "candlestick_patterns" ->
            "pattern_detected" \in DOMAIN record /\ record.pattern_detected = FALSE
      [] key = "support_resistance" ->
            "levels_detected" \in DOMAIN record /\ record.levels_detected = 0
      [] key = "price_action" ->
            "trend_direction" \in DOMAIN record /\ record.trend_direction = "unclear"
      [] key = "volume_analysis" ->
            "volume_present" \in DOMAIN record /\ record.volume_present = FALSE

\* C3: when exactly one analyzer fails on the raster, the call returns
\* success=true with a fused signal, the failed analyzer's record is its neutral
\* default, and every other record is what the analyzer gives without the failure.
C3_OneFailureIsIsolated ==
    (Returned /\ image # NoImage /\ Cardinality(image.raises) = 1) =>
        /\ result.success = TRUE
        /\ DOMAIN result.analysis = Analyzers
        /\ result.trading_signal.method # "python_error_fallback"
        /\ \A key \in Analyzers :
              IF key \in image.raises
              THEN /\ IsNeutralDefault(key, result.analysis[key])
                   /\ "error" \in DOMAIN result.analysis[key]
              ELSE result.analysis[key] = AnalyzerRecord(key, [image EXCEPT !.raises = {}])

\* C3 witness: the existing-trade detector failed on a raster whose blue markers
\* would have fired it, and the call returned a weighted-path signal
C3_Witness ==
    /\ Returned /\ image # NoImage
    /\ image.raises = {"existing_trade"}
    /\ image.blue_pixels > 0
    /\ result.success
    /\ result.analysis["trend_analysis"].trend = "bearish"
    /\ result.trading_signal.method = "python_computer_vision"

\* C4: when the payload cannot be decoded no analyzer and no fusion runs, and
\* the call returns success=false with an error message and the safe-default
\* signal: side sell, confidence 0.75, null entry.
C4_DecodeFailureIsFatal ==
    (image_data # EmptyDict /\ DecodeImage(image_data) = NoImage) =>
        /\ Returned
        /\ analysis_results = EmptyDict
        /\ trading_signal = EmptyDict
        /\ result.success = FALSE
        /\ "error" \in DOMAIN result
        /\ result.trading_signal.side = "sell"
        /\ result.trading_signal.confidence = 7500
        /\ result.trading_signal.entryPrice = NoneValue

\* C4 witness: a payload of 99 bytes was rejected
C4_Witness ==
    /\ Returned
    /\ image_data.is_str /\ image_data.base64_valid /\ image_data.byte_length = 99
    /\ result.success = FALSE
    /\ result.error = "Failed to decode image"

\* every set of records with the given existing-trade record
AlternativeAnalyses(existing_trade) ==
    {[trend_analysis |-> t, existing_trade |-> existing_trade, candlestick_patterns |-> c,
      support_resistance |-> l, price_action |-> p, volume_analysis |-> v] :
        t \in HandBuiltTrend, c \in HandBuiltPatterns, l \in HandBuiltLevels,
        p \in HandBuiltPriceAction, v \in HandBuiltVolume}

\* C5: once the existing-trade record has has_existing_trade=true, the signal is
\* the same for every trend, candlestick, support/resistance, price-action and
\* volume record.
C5_ShortCircuitNonInterference ==
    (Fused /\ ExistingTradeFired) =>
        \A other \in AlternativeAnalyses(Record("existing_trade")) :
            GenerateTradingSignal(other) = trading_signal

\* C5 witness: a copy signal was returned although the other records carried a
\* bearish trend, a detected pattern and support/resistance
C5_Witness ==
    /\ Returned /\ result.success
    /\ ExistingTradeFired
    /\ Record("trend_analysis").trend = "bearish"
    /\ Record("candlestick_patterns").pattern_detected
    /\ Record("support_resistance").has_support_resistance
    /\ trading_signal.side = "copy"

\* C6: with sub-mode copy the signal has side copy, confidence 0.95, the
\* offsets of the record's trade parameters and null entry, stop and target.
C6_CopySignal ==
    (Fused /\ ExistingTradeFired /\ CopySubMode) =>
        /\ trading_signal.side = "copy"
        /\ trading_signal.confidence = 9500
        /\ trading_signal.entryPrice = NoneValue
        /\ trading_signal.stopLoss = NoneValue
        /\ trading_signal.takeProfit = NoneValue
        /\ "trade_parameters" \in DOMAIN Record("existing_trade") =>
            /\ trading_signal.stopLossPercent =
                    Record("existing_trade").trade_parameters.stop_loss_percent
            /\ trading_signal.takeProfitPercent =
                    Record("existing_trade").trade_parameters.take_profit_percent

\* C6 witness: the pipeline returned a copy signal with offsets derived from levels
C6_Witness ==
    /\ Returned /\ result.success
    /\ result.trading_signal.side = "copy"
    /\ result.trading_signal.stopLossPercent = 12000
    /\ result.trading_signal.takeProfitPercent = 10000

\* C7: with any sub-mode other than copy the signal has side follow, confidence
\* 0.9, offsets 0.5 and 1.5 whatever the trade parameters, and null entry.
C7_FollowSignal ==
    (Fused /\ ExistingTradeFired /\ ~CopySubMode) =>
        /\ trading_signal.side = "follow"
        /\ trading_signal.confidence = 9000
        /\ trading_signal.stopLossPercent = 5000
        /\ trading_signal.takeProfitPercent = 15000
        /\ trading_signal.entryPrice = NoneValue
        /\ trading_signal.method = "existing_trade_follow"

\* C7 witness: a follow signal for a record whose trade parameters differ
C7_Witness ==
    /\ pc = "fused"
    /\ ExistingTradeFired /\ ~CopySubMode
    /\ "trade_parameters" \in DOMAIN Record("existing_trade")
    /\ Record("existing_trade").trade_parameters.stop_loss_percent = 8000
    /\ trading_signal.side = "follow"

\* C8: in the weighted path bearish gives sell and bullish gives buy whatever
\* the price action; price action sets the side only under a neutral trend; and
\* no candlestick or support/resistance record changes the side.
C8_SideFromTrendThenPriceAction ==
    WeightedPath =>
        LET trend_type == Get(Record("trend_analysis"), "trend", "neutral")
            price_direction == Get(Record("price_action"), "trend_direction", "unclear")
        IN  /\ trend_type = "bearish" => trading_signal.side = "sell"
            /\ trend_type = "bullish" => trading_signal.side = "buy"
            /\ (trend_type \notin {"bearish", "bullish"} /\ price_direction = "downward")
                    => trading_signal.side = "sell"
            /\ (trend_type \notin {"bearish", "bullish"} /\ price_direction = "upward")
                    => trading_signal.side = "buy"
            /\ \A c \in HandBuiltPatterns \cup {Record("candlestick_patterns")},
                  l \in HandBuiltLevels \cup {Record("support_resistance")} :
                    GenerateTradingSignal(
                        [trend_analysis |-> Record("trend_analysis"),
                         existing_trade |-> Record("existing_trade"),
                         candlestick_patterns |-> c,
                         support_resistance |-> l,
                         price_action |-> Record("price_action"),
                         volume_analysis |-> Record("volume_analysis")]).side
                    = trading_signal.side

\* C8 witness: a bullish trend against a downward price action gave buy
C8_Witness ==
    /\ Returned /\ WeightedPath
    /\ Record("trend_analysis").trend = "bullish"
    /\ Record("price_action").trend_direction = "downward"
    /\ trading_signal.side = "buy"

\* the score of the claim: the weighted sum, at least 0.7 when no direction was set
ClaimedScore ==
    LET trend == Record("trend_analysis")
        patterns == Record("candlestick_patterns")
        price_action == Record("price_action")
        levels == Record("support_resistance")
        directed_trend == Get(trend, "trend", "neutral") \in {"bullish", "bearish"}
        directed_price ==
            Get(price_action, "trend_direction", "unclear") \in {"upward", "downward"}
        sum ==
            (IF directed_trend THEN (4 * Get(trend, "confidence", 5000)) \div 10 ELSE 0)
            + (IF Get(patterns, "pattern_detected", FALSE)
               THEN (3 * Get(patterns, "confidence", 5000)) \div 10 ELSE 0)
            + (IF directed_price
               THEN (2 * Get(price_action, "trend_strength", 5000)) \div 10 ELSE 0)
            + (IF Get(levels, "has_support_resistance", FALSE) THEN 1000 ELSE 0)
    IN  IF directed_trend \/ directed_price THEN sum
        ELSE IF sum < 7000 THEN 7000 ELSE sum

\* C9: in the weighted path the confidence is max(0.75, score): the score when
\* it is above 0.75, and 0.75 otherwise.
C9_ConfidenceIsFlooredScore ==
    WeightedPath =>
        /\ trading_signal.analysis_details.total_signal_strength = ClaimedScore
        /\ trading_signal.confidence =
                (IF ClaimedScore > 7500 THEN ClaimedScore ELSE 7500)

\* C9 witness: the pipeline returned a score above the floor unchanged
C9_Witness ==
    /\ Returned /\ WeightedPath
    /\ ClaimedScore > 7500
    /\ result.trading_signal.confidence = ClaimedScore

\* C10: in the weighted path a sell has offsets +0.5 / -2.0 and a buy has
\* offsets -0.5 / +2.0, whatever the score and the confidence.
C10_OffsetsBySide ==
    WeightedPath =>
        /\ trading_signal.side \in {"sell", "buy"}
        /\ trading_signal.side = "sell" =>
            trading_signal.stopLossPercent = 5000 /\ trading_signal.takeProfitPercent = -20000
        /\ trading_signal.side = "buy" =>
            trading_signal.stopLossPercent = -5000 /\ trading_signal.takeProfitPercent = 20000

\* C10 witness: the pipeline returned a buy signal above the floor with buy offsets
C10_Witness ==
    /\ Returned /\ WeightedPath
    /\ trading_signal.side = "buy"
    /\ trading_signal.confidence > 7500
    /\ trading_signal.takeProfitPercent = 20000

\* the texts of the reasoning list of the emitted signal, in its order
ReasoningTexts ==
    [i \in DOMAIN trading_signal.reasoning.parts |-> trading_signal.reasoning.parts[i].text]

\* the strings the claim expects for the records fused, in evaluation order
ExpectedReasoningTexts ==
    LET trend_type == Get(Record("trend_analysis"), "trend", "neutral")
        price_direction == Get(Record("price_action"), "trend_direction", "unclear")
    IN  (IF trend_type = "bearish" THEN <<"Bearish trend detected">>
         ELSE IF trend_type = "bullish" THEN <<"Bullish trend detected">> ELSE <<>>)
        \o (IF Get(Record("candlestick_patterns"), "pattern_detected", FALSE)
            THEN <<"Candlestick patterns identified">> ELSE <<>>)
        \o (IF price_direction = "downward" THEN <<"Downward price action">>
            ELSE IF price_direction = "upward" THEN <<"Upward price action">> ELSE <<>>)
        \o (IF Get(Record("support_resistance"), "has_support_resistance", FALSE)
            THEN <<"Support/resistance levels identified">> ELSE <<>>)
        \o (IF trend_type \notin {"bearish", "bullish"}
               /\ price_direction \notin {"downward", "upward"}
            THEN <<"Default bearish bias for ETH">> ELSE <<>>)

\* C11: the reasoning of a weighted-path signal lists the strings of the steps
\* that contributed, in the order trend, candlestick pattern, price action,
\* support/resistance, default bearish bias, each exactly when its step
\* contributed and none twice.
C11_ReasoningInEvaluationOrder ==
    WeightedPath =>
        /\ trading_signal.reasoning.prefix = "Python CV Analysis"
        /\ ReasoningTexts = ExpectedReasoningTexts
        /\ \A i, j \in DOMAIN ReasoningTexts : ReasoningTexts[i] = ReasoningTexts[j] => i = j

\* C11 witness: the pipeline returned a signal to which trend, pattern, price
\* action and support/resistance all contributed
C11_Witness ==
    /\ Returned /\ WeightedPath
    /\ ReasoningTexts = <<"Bearish trend detected", "Candlestick patterns identified",
                          "Upward price action", "Support/resistance levels identified">>

\* the existing-trade detector has run on the raster of this call
ExistingTradeDetected ==
    /\ image # NoImage
    /\ "existing_trade" \in DOMAIN analysis_results
    /\ "existing_trade" \notin image.raises

\* the segments of the raster the detector keeps as horizontal levels
KeptLevels ==
    {i \in DOMAIN image.trade_lines :
        LET line == image.trade_lines[i]
        IN  /\ Abs(line.y2 - line.y1) <= 3
            /\ Abs(line.x2 - line.x1) >= image.width \div 4}

\* C12: the existing-trade detector returns has_existing_trade=true exactly when
\* the blue density is above 0.002, or the purple density is above 0.001, or at
\* least 3 horizontal levels were found, whatever the red and yellow pixels are.
C12_TriggerRule ==
    ExistingTradeDetected =>
        (analysis_results["existing_trade"].has_existing_trade
            <=> \/ image.blue_pixels * 1000 > 2 * image.height * image.width
                \/ image.purple_pixels * 1000 > image.height * image.width
                \/ Cardinality(KeptLevels) >= 3)

\* C12 witness: three levels and no colour marker fired the detector
C12_Witness ==
    /\ Returned /\ ExistingTradeDetected
    /\ image.blue_pixels = 0 /\ image.purple_pixels = 0
    /\ Cardinality(KeptLevels) = 3
    /\ analysis_results["existing_trade"].has_existing_trade

\* the detector fired on the raster of this call and derived trade parameters
TradeParametersDerived ==
    /\ ExistingTradeDetected
    /\ analysis_results["existing_trade"].has_existing_trade

\* the trade parameters the detector derived
DerivedParameters == analysis_results["existing_trade"].trade_parameters

\* the vertical positions of the kept levels and of the midpoint of the raster
KeptPositions ==
    {Ratio(image.trade_lines[i].y1 + image.trade_lines[i].y2, 2) : i \in KeptLevels}

Midpoint == Ratio(image.height, 2)

PositionsAbove == {y \in KeptPositions : y < Midpoint}

PositionsBelow == {y \in KeptPositions : y > Midpoint}

\* the normalized distance from the midpoint to the nearest level of a side
NearestDistance(positions) ==
    (CHOOSE d \in {Abs(y - Midpoint) : y \in positions} :
        \A y \in positions : d <= Abs(y - Midpoint)) \div image.height

Clamp(x, low, high) == IF x < low THEN low ELSE IF x > high THEN high ELSE x

\* the values of the claim: the clamps when both sides hold a level, else the defaults
ClaimedTakeProfit ==
    IF PositionsAbove # {} /\ PositionsBelow # {}
    THEN Clamp(NearestDistance(PositionsAbove) * 10, 5000, 30000)
    ELSE 15000

ClaimedStopLoss ==
    IF PositionsAbove # {} /\ PositionsBelow # {}
    THEN Clamp(NearestDistance(PositionsBelow) * 8, 3000, 20000)
    ELSE 5000

\* x is y rounded to one decimal place
IsRoundedToOneDecimal(x, y) == x % 1000 = 0 /\ Abs(x - y) <= 500

\* C13 as stated: the derived take-profit is clamp(d_above x 10, 0.5, 3.0) and
\* the derived stop-loss is clamp(d_below x 8, 0.3, 2.0), and both are the
\* defaults 1.5 and 0.5 if either side of the midpoint has no level.
C13_ParametersAreClamps ==
    TradeParametersDerived =>
        /\ DerivedParameters.take_profit_percent = ClaimedTakeProfit
        /\ DerivedParameters.stop_loss_percent = ClaimedStopLoss

\* C13, amended: the derived take-profit is clamp(d_above x 10, 0.5, 3.0) rounded
\* to one decimal place and the derived stop-loss is clamp(d_below x 8, 0.3, 2.0)
\* rounded to one decimal place; if either side of the midpoint has no level
\* they are the defaults 1.5 and 0.5.
C13_ParametersAreRoundedClamps ==
    TradeParametersDerived =>
        /\ IsRoundedToOneDecimal(DerivedParameters.take_profit_percent, ClaimedTakeProfit)
        /\ IsRoundedToOneDecimal(DerivedParameters.stop_loss_percent, ClaimedStopLoss)
        /\ (PositionsAbove = {} \/ PositionsBelow = {}) =>
              /\ DerivedParameters.take_profit_percent = 15000
              /\ DerivedParameters.stop_loss_percent = 5000

\* C13 witness: a level 2.5 rows above the midpoint of 20 rows gave the target
\* 1.2, the clamp being 1.25
C13_Witness ==
    /\ Returned /\ TradeParametersDerived
    /\ ClaimedTakeProfit = 12500
    /\ DerivedParameters.take_profit_percent = 12000

\* C14: whenever the existing-trade detector fires, for every set of levels,
\* the derived stop-loss lies in [0.3, 2.0] and the derived take-profit in
\* [0.5, 3.0], and the copy signal carries exactly these two values.
C14_ParametersWithinBounds ==
    TradeParametersDerived =>
        /\ DerivedParameters.stop_loss_percent >= 3000
        /\ DerivedParameters.stop_loss_percent <= 20000
        /\ DerivedParameters.take_profit_percent >= 5000
        /\ DerivedParameters.take_profit_percent <= 30000
        /\ Returned =>
              /\ result.trading_signal.side = "copy"
              /\ result.trading_signal.stopLossPercent = DerivedParameters.stop_loss_percent
              /\ result.trading_signal.takeProfitPercent = DerivedParameters.take_profit_percent

\* C14 witness: three levels, one of them on the midpoint, and no colour marker
\* fired the detector, and the copy signal was returned
C14_Witness ==
    /\ Returned /\ TradeParametersDerived
    /\ image.blue_pixels = 0 /\ image.purple_pixels = 0
    /\ Midpoint \in KeptPositions
    /\ DerivedParameters.levels_above + DerivedParameters.levels_below < Cardinality(KeptLevels)
    /\ result.trading_signal.side = "copy"

\* the trend analyzer has run on the raster of this call
TrendAnalyzed ==
    /\ image # NoImage
    /\ "trend_analysis" \in DOMAIN analysis_results
    /\ "trend_analysis" \notin image.raises

\* the green (red) fraction exceeds the red (green) one and exceeds 2%
GreenWins ==
    /\ image.green_pixels > image.red_pixels
    /\ image.green_pixels * 100 > 2 * image.height * image.width

RedWins ==
    /\ image.red_pixels > image.green_pixels
    /\ image.red_pixels * 100 > 2 * image.height * image.width

\* min(0.95, 0.6 + fraction x 5) for the fraction pixels / (height x width)
ClaimedTrendConfidence(pixels) ==
    LET raw == 6000 + ((pixels * One) \div (image.height * image.width)) * 5
    IN  IF raw > 9500 THEN 9500 ELSE raw

\* C15: the trend analyzer returns exactly one label: bullish iff the green
\* fraction exceeds the red fraction and 2%, bearish iff the red fraction
\* exceeds the green fraction and 2%, otherwise neutral with confidence 0.5; a
\* non-neutral confidence is min(0.95, 0.6 + winning fraction x 5), hence in
\* [0.6, 0.95].
C15_TrendRule ==
    TrendAnalyzed =>
        LET trend == analysis_results["trend_analysis"]
        IN  /\ trend.trend \in {"bullish", "bearish", "neutral"}
            /\ trend.trend = "bullish" <=> GreenWins
            /\ trend.trend = "bearish" <=> RedWins
            /\ trend.trend = "neutral" => trend.confidence = 5000
            /\ trend.trend = "bullish" =>
                    trend.confidence = ClaimedTrendConfidence(image.green_pixels)
            /\ trend.trend = "bearish" =>
                    trend.confidence = ClaimedTrendConfidence(image.red_pixels)
            /\ trend.trend # "neutral" => trend.confidence >= 6000 /\ trend.confidence <= 9500

\* C15 witness: equal green and red fractions above 2% were labelled neutral
C15_Witness ==
    /\ Returned /\ TrendAnalyzed
    /\ image.green_pixels = image.red_pixels
    /\ image.green_pixels * 100 > 2 * image.height * image.width
    /\ analysis_results["trend_analysis"].trend = "neutral"
    /\ analysis_results["trend_analysis"].confidence = 5000

\* C16: when no existing trade fired, the trend is neutral and the price action
\* is neither upward nor downward, the signal has side sell and confidence
\* exactly 0.75 whatever the candlestick and support/resistance records add,
\* and its reasoning ends with the default bearish bias.
C16_DefaultBearishBias ==
    (/\ Fused
     /\ ~ExistingTradeFired
     /\ Get(Record("trend_analysis"), "trend", "neutral") \notin {"bullish", "bearish"}
     /\ Get(Record("price_action"), "trend_direction", "unclear") \notin {"upward", "downward"})
    =>  /\ trading_signal.side = "sell"
        /\ trading_signal.confidence = 7500
        /\ trading_signal.reasoning.parts # <<>>
        /\ trading_signal.reasoning.parts[Len(trading_signal.reasoning.parts)].text
                = "Default bearish bias for ETH"

\* C16 witness: the pipeline returned the default sell although a candlestick
\* pattern and support/resistance both added to the score
C16_Witness ==
    /\ Returned /\ WeightedPath
    /\ Record("trend_analysis").trend = "neutral"
    /\ Record("price_action").trend_direction \in {"unclear", "sideways"}
    /\ Record("candlestick_patterns").pattern_detected
    /\ Record("support_resistance").has_support_resistance
    /\ trading_signal.analysis_details.total_signal_strength = 7000
    /\ result.trading_signal.side = "sell"
    /\ result.trading_signal.confidence = 7500

\* orders in which the six analyses could be run: the order of the source, its
\* reverse, the existing-trade detector first, the existing-trade detector last
AnalyzerOrders ==
    {<<"trend_analysis", "existing_trade", "candlestick_patterns",
       "support_resistance", "price_action", "volume_analysis">>,
     <<"volume_analysis", "price_action", "support_resistance",
       "candlestick_patterns", "existing_trade", "trend_analysis">>,
     <<"existing_trade", "volume_analysis", "trend_analysis",
       "price_action", "candlestick_patterns", "support_resistance">>,
     <<"price_action", "trend_analysis", "support_resistance",
       "volume_analysis", "candlestick_patterns", "existing_trade">>}

\* the records collected by running the analyses on `raster` in the given order
RECURSIVE RecordsInOrder(_, _, _)
RecordsInOrder(order, raster, collected) ==
    IF order = <<>> THEN collected
    ELSE RecordsInOrder(Tail(order), raster,
            (Head(order) :> AnalyzerRecord(Head(order), raster)) @@ collected)

ResultOf(payload) ==
    LET raster == DecodeImage(payload)
        records == [key \in Analyzers |-> AnalyzerRecord(key, raster)]
    IN  IF raster = NoImage
        THEN CreateErrorResponse("Failed to decode image")
        ELSE SuccessResponse(records, GenerateTradingSignal(records))

ReachedLengthCheck ==
    /\ image_data # EmptyDict
    /\ image_data.is_str /\ image_data.data_url # "no_comma" /\ image_data.base64_valid

\* the decoder named was attempted during this call
Attempted(decoder) == \E i \in DOMAIN decode_attempts : decode_attempts[i] = decoder

\* C19: a payload of under 100 decoded bytes is rejected before any image
\* decode is attempted; for a payload of at least 100 bytes the secondary decode
\* is attempted exactly when the primary decode has failed, and after it; a
\* decode failure is reported only after both have failed; a success of either
\* yields the raster.
C19_DecoderProtocol ==
    ReachedLengthCheck =>
        /\ image_data.byte_length < 100 =>
              /\ ~Attempted("primary") /\ ~Attempted("secondary")
              /\ image = NoImage
        /\ image_data.byte_length >= 100 =>
              /\ Attempted("primary")
              /\ Attempted("secondary") <=> ~image_data.pil_ok
              /\ Attempted("secondary") =>
                    \E i, j \in DOMAIN decode_attempts :
                        /\ i < j
                        /\ decode_attempts[i] = "primary"
                        /\ decode_attempts[j] = "secondary"
              /\ image = NoImage <=> (~image_data.pil_ok /\ ~image_data.imdecode_ok)
              /\ image = NoImage => Attempted("primary") /\ Attempted("secondary")
              /\ image # NoImage => image = image_data.raster
        /\ \A i, j \in DOMAIN decode_attempts :
              decode_attempts[i] = decode_attempts[j] => i = j

\* C19 witness: the primary decode failed, the secondary decode gave the raster
\* and the call returned a signal for it
C19_Witness ==
    /\ Returned /\ result.success
    /\ image_data.byte_length >= 100
    /\ ~image_data.pil_ok /\ image_data.imdecode_ok
    /\ decode_attempts = <<"base64", "primary", "secondary">>
    /\ image = image_data.raster

\* the computation of the fusion engine failed on the records it was given
FusionFailed ==
    /\ ~ExistingTradeFired
    /\ WeightedPathRaises(Record("trend_analysis"), Record("candlestick_patterns"),
                          Record("price_action"))

\* C20: if the computation of the fusion engine fails it does not raise: it
\* returns the fixed signal with side sell, confidence 0.8, stop offset 0.5,
\* target offset 2.0 and null entry; and the result the pipeline returns after
\* fusion carries the signal the fusion engine returned.
C20_FusionFallback ==
    /\ (Fused /\ FusionFailed) =>
            /\ ~Raised(trading_signal)
            /\ trading_signal.isSignal = TRUE
            /\ trading_signal.side = "sell"
            /\ trading_signal.confidence = 8000
            /\ trading_signal.stopLossPercent = 5000
            /\ trading_signal.takeProfitPercent = 20000
            /\ trading_signal.entryPrice = NoneValue
            /\ trading_signal.method = "python_fallback"
    /\ (Returned /\ image # NoImage) =>
            /\ result.success = TRUE
            /\ result.trading_signal = GenerateTradingSignal(analysis_results)
            /\ result.confidence = result.trading_signal.confidence

\* C20 witness: the fusion engine was given a trend confidence that is not a
\* number and returned the fallback signal
C20_Witness ==
    /\ pc = "fused"
    /\ FusionFailed
    /\ Record("trend_analysis").confidence = NotANumber
    /\ trading_signal.method = "python_fallback"
    /\ trading_signal.confidence = 8000

\* the records the six analyzers produce on `raster` when the library calls of
\* the analyzers in `failing` raise
RecordsWith(raster, failing) ==
    [key \in Analyzers |-> AnalyzerRecord(key, [raster EXCEPT !.raises = failing])]

\* the paths on which the fusion engine completes without its except branch
CompletingPaths == {"copy", "follow", "weighted"}

\* C21: the fusion fallback is unreachable from the pipeline: for every
\* combination of records the six analyzers can produce, normal or degraded
\* (keys missing from degraded records), the fusion engine completes through
\* the copy, follow or weighted path and never takes its exception fallback.
C21_FallbackUnreachableFromPipeline ==
    /\ pc = "fusion" =>
            /\ FusionPath(analysis_results) \in CompletingPaths
            /\ \A failing \in SUBSET Analyzers :
                  FusionPath(RecordsWith(image, failing)) \in CompletingPaths
    /\ (Returned /\ image # NoImage) =>
            /\ result.success = TRUE
            /\ result.trading_signal.method \in
                  {"copy_existing_trade", "existing_trade_follow", "python_computer_vision"}

\* C21 witness: the price-action analyzer failed, its degraded record has no
\* trend_strength, and the call returned a weighted-path signal
C21_Witness ==
    /\ Returned /\ image # NoImage
    /\ image.raises = {"price_action"}
    /\ "error" \in DOMAIN result.analysis["price_action"]
    /\ "trend_strength" \notin DOMAIN result.analysis["price_action"]
    /\ result.trading_signal.method = "python_computer_vision"

\* C22: fusion begins only after the existing-trade detector and the five
\* independent analyzers have produced their records, normal or degraded: while
\* a record is still to be produced no signal has been fused, and when fusion
\* starts, and when its result is returned, all six records are present.
C22_FusionAfterAllRecords ==
    /\ pc \in Analyzers =>
            /\ pc \notin DOMAIN analysis_results
            /\ trading_signal = EmptyDict
            /\ result = EmptyDict
    /\ pc = "fusion" =>
            /\ DOMAIN analysis_results = Analyzers
            /\ \A key \in Analyzers : analysis_results[key] = AnalyzerRecord(key, image)
            /\ trading_signal = EmptyDict
    /\ (Returned /\ result.success) =>
            /\ DOMAIN analysis_results = Analyzers
            /\ result.analysis = analysis_results

\* C22 witness: fusion is about to start with six records, the last of them
\* the degraded record of the volume analyzer
C22_Witness ==
    /\ pc = "fusion"
    /\ DOMAIN analysis_results = Analyzers
    /\ "error" \in DOMAIN analysis_results["volume_analysis"]
    /\ Record("existing_trade").has_existing_trade = FALSE

\* the price-action analyzer has run on the raster and did not fail
PriceActionAnalyzed ==
    /\ image # NoImage
    /\ "price_action" \in DOMAIN analysis_results
    /\ "price_action" \notin image.raises

\* the contours of more than 10 points whose last point is higher on screen
\* (a smaller row) than the first, and those whose last point is lower
RisingContours ==
    {i \in DOMAIN image.contours :
        image.contours[i].points > 10 /\ image.contours[i].end_y < image.contours[i].start_y}

FallingContours ==
    {i \in DOMAIN image.contours :
        image.contours[i].points > 10 /\ image.contours[i].end_y > image.contours[i].start_y}

\* strength is part / whole, to the fixed-point unit
IsRatio(strength, part, whole) == Abs(strength * whole - part * One) < whole

\* C23: with U the contours of more than 10 points that end higher than they
\* start and D those that end lower: trend_direction is upward iff
\* U/(U+D) > 0.6, with strength U/(U+D); downward iff U/(U+D) < 0.4, with
\* strength D/(U+D); sideways with strength 0.5 otherwise, exactly 0.6 and 0.4
\* included; unclear with strength 0.3 if no contour qualified.
C23_PriceActionRule ==
    PriceActionAnalyzed =>
        LET U == Cardinality(RisingContours)
            D == Cardinality(FallingContours)
            record == analysis_results["price_action"]
        IN  /\ record.trend_direction = "upward" <=> (U + D > 0 /\ 10 * U > 6 * (U + D))
            /\ record.trend_direction = "upward" => IsRatio(record.trend_strength, U, U + D)
            /\ record.trend_direction = "downward" <=> (U + D > 0 /\ 10 * U < 4 * (U + D))
            /\ record.trend_direction = "downward" => IsRatio(record.trend_strength, D, U + D)
            /\ record.trend_direction = "sideways" <=>
                  (U + D > 0 /\ 10 * U <= 6 * (U + D) /\ 10 * U >= 4 * (U + D))
            /\ record.trend_direction = "sideways" => record.trend_strength = 5000
            /\ record.trend_direction = "unclear" <=> U + D = 0
            /\ record.trend_direction = "unclear" => record.trend_strength = 3000

\* C23 witness: three rising and two falling contours, a ratio of exactly 0.6,
\* gave sideways with strength 0.5
C23_Witness ==
    /\ Returned /\ PriceActionAnalyzed
    /\ Cardinality(RisingContours) = 3
    /\ Cardinality(FallingContours) = 2
    /\ Record("price_action").trend_direction = "sideways"
    /\ Record("price_action").trend_strength = 5000

\* the support/resistance finder has run on the raster and did not fail
LevelsAnalyzed ==
    /\ image # NoImage
    /\ "support_resistance" \in DOMAIN analysis_results
    /\ "support_resistance" \notin image.raises

\* the near-horizontal segments of the line transform, in its output order
AcceptedLines == SelectSeq(image.sr_lines, NearlyHorizontal)

\* the strength the claim gives the k-th accepted segment, k from 0
ClaimedStrength(k) == Min(One, 1000 * k)

\* the segments that go in front of the k-th when the levels are ordered by
\* strength descending and equal strengths keep the transform's order
AheadOf(k) ==
    {j \in 0..(Len(AcceptedLines) - 1) :
        \/ ClaimedStrength(j) > ClaimedStrength(k)
        \/ ClaimedStrength(j) = ClaimedStrength(k) /\ j < k}

\* the accepted segment that comes at `place` (from 1) in that order
SegmentAt(place) ==
    CHOOSE k \in 0..(Len(AcceptedLines) - 1) : Cardinality(AheadOf(k)) = place - 1

\* C24: the k-th accepted near-horizontal line in the line detector's output
\* order (k from 0) gets strength min(1.0, 0.1 x k) whatever its length;
\* levels_detected is the number accepted; strong_levels is the first 5 (or
\* all, if fewer) of the levels by strength descending, equal strengths in the
\* detector's order; has_support_resistance is true iff more than 2 were accepted.
C24_SupportResistanceRule ==
    LevelsAnalyzed =>
        LET record == analysis_results["support_resistance"]
            count == Len(AcceptedLines)
        IN  /\ record.levels_detected = count
            /\ record.has_support_resistance = (count > 2)
            /\ Len(record.strong_levels) = Min(5, count)
            /\ \A place \in 1..Min(5, count) :
                  LET k == SegmentAt(place)
                      line == AcceptedLines[k + 1]
                  IN  /\ record.strong_levels[place].strength = ClaimedStrength(k)
                      /\ record.strong_levels[place].y_position = (line.y1 + line.y2) \div 2

\* C24 witness: twelve segments were accepted, the last two both with
\* strength 1.0, and the earlier of the two comes first among the strong levels
C24_Witness ==
    /\ Returned /\ LevelsAnalyzed
    /\ Len(AcceptedLines) = 12
    /\ Len(image.sr_lines) > 12
    /\ Record("support_resistance").levels_detected = 12
    /\ Len(Record("support_resistance").strong_levels) = 5
    /\ Record("support_resistance").strong_levels[1].y_position = 11
    /\ Record("support_resistance").strong_levels[2].y_position = 12
    /\ Record("support_resistance").strong_levels[2].strength = One
    /\ Record("support_resistance").strong_levels[3].strength = 9000

\* a longer level of `levels` never has a lower strength than a shorter one
MonotonicInLength(levels) ==
    \A i, j \in DOMAIN levels :
        levels[i].length > levels[j].length => levels[i].strength >= levels[j].strength

\* the existing-trade detector has run on the raster and did not fail
ExistingTradeAnalyzed ==
    /\ image # NoImage
    /\ "existing_trade" \in DOMAIN analysis_results
    /\ "existing_trade" \notin image.raises

\* the levels the existing-trade detector keeps, in the transform's order
TradeLevels == HorizontalLevels(image.trade_lines, image.height, image.width)

\* the levels of the support/resistance finder, in the transform's order
SupportLevels == SupportResistanceLines(image.sr_lines, <<>>)

\* C25 as stated: every Detected Level, in the existing-trade detector and in
\* the support/resistance finder, has a strength that is monotonic in its
\* length: within one analysis a longer level never has a lower strength.  The
\* levels of the support/resistance finder get their strength from their place
\* in the line transform's output, so this fails when a longer segment comes
\* before a shorter one.
C25_StrengthMonotonicInLength ==
    /\ ExistingTradeAnalyzed => MonotonicInLength(TradeLevels)
    /\ LevelsAnalyzed =>
            /\ MonotonicInLength(SupportLevels)
            /\ MonotonicInLength(analysis_results["support_resistance"].strong_levels)

\* C25, amended: every Detected Level of the existing-trade detector has a
\* strength that is monotonic in its length (its length over the image width):
\* a longer level never has a lower strength.  In the support/resistance finder
\* the strength of a level is monotonic in its place in the line detector's
\* output, min(1.0, 0.1 x k) for the k-th accepted line, whatever its length.
C25_StrengthByDetector ==
    /\ ExistingTradeAnalyzed =>
            /\ MonotonicInLength(TradeLevels)
            /\ \A i \in DOMAIN TradeLevels :
                  TradeLevels[i].strength = Ratio(TradeLevels[i].length, image.width)
    /\ LevelsAnalyzed =>
            /\ \A i, j \in DOMAIN SupportLevels :
                  i < j => SupportLevels[i].strength <= SupportLevels[j].strength
            /\ \A i \in DOMAIN SupportLevels :
                  SupportLevels[i].strength = Min(One, 1000 * (i - 1))

\* C25 witness: the existing-trade detector kept levels of three lengths, the
\* shortest found first and with the lowest strength
C25_Witness ==
    /\ Returned /\ ExistingTradeAnalyzed
    /\ Len(TradeLevels) = 3
    /\ TradeLevels[1].length < TradeLevels[2].length
    /\ TradeLevels[2].length < TradeLevels[3].length
    /\ TradeLevels[1].strength < TradeLevels[2].strength
    /\ TradeLevels[2].strength < TradeLevels[3].strength

\* C26: the pipeline never emits a follow signal: whenever the existing-trade
\* detector reports has_existing_trade = true it sets trade_type to
\* copy_existing_setup, so every signal analyze_chart_image returns has side
\* buy, sell or copy, and a signal with side follow comes only from a direct
\* call of the fusion engine with a hand-built record.
C26_PipelineNeverFollows ==
    /\ (image # NoImage /\ "existing_trade" \in DOMAIN analysis_results
            /\ ExistingTradeFired) =>
            analysis_results["existing_trade"].trade_type = "copy_existing_setup"
    /\ Returned => result.trading_signal.side \in {"buy", "sell", "copy"}
    /\ pc \in Analyzers \cup {"fusion", "done"} =>
            (trading_signal = EmptyDict \/ trading_signal.side # "follow")
    /\ (trading_signal # EmptyDict /\ trading_signal.side = "follow") =>
            /\ pc = "fused"
            /\ analysis_results \in HandBuiltAnalyses
            /\ image = NoImage

\* C26 witness: the detector fired on purple markers and the call returned a
\* copy signal
C26_Witness ==
    /\ Returned /\ image # NoImage
    /\ image.purple_pixels > 0
    /\ ExistingTradeFired
    /\ Record("existing_trade").trade_type = "copy_existing_setup"
    /\ result.trading_signal.side = "copy"
    /\ result.trading_signal.method = "copy_existing_trade"

\* the three contributions the claim names, on the records the fusion engine
\* was given
TrendDirected == Get(Record("trend_analysis"), "trend", "neutral") \in {"bullish", "bearish"}

PatternDetected == Get(Record("candlestick_patterns"), "pattern_detected", FALSE)

PriceActionDirected ==
    Get(Record("price_action"), "trend_direction", "unclear") \in {"upward", "downward"}

\* C28: in the weighted path, with analyzer outputs bounded as the analyzers
\* bound them, the final confidence is strictly greater than 0.75 only if the
\* trend is bullish or bearish, a candlestick pattern was detected, and the
\* price action is upward or downward, all three together; in every other
\* combination the confidence is exactly the floor 0.75.
C28_AboveFloorNeedsAllThree ==
    WeightedPath =>
        /\ trading_signal.confidence > 7500 =>
                (TrendDirected /\ PatternDetected /\ PriceActionDirected)
        /\ ~(TrendDirected /\ PatternDetected /\ PriceActionDirected) =>
                trading_signal.confidence = 7500

\* C28 witness: trend at its bound 0.95, pattern at its bound 0.9 and
\* support/resistance levels, but a sideways price action: the score is
\* 0.38 + 0.27 + 0.1 = 0.75 and the confidence is the floor
C28_Witness ==
    /\ Returned /\ WeightedPath
    /\ Record("trend_analysis").confidence = 9500
    /\ PatternDetected /\ Record("candlestick_patterns").confidence = 9000
    /\ Record("support_resistance").has_support_resistance
    /\ Record("price_action").trend_direction = "sideways"
    /\ trading_signal.analysis_details.total_signal_strength = 7500
    /\ trading_signal.confidence = 7500

\* volume records the fusion engine can be handed: none, empty, degraded,
\* without and with visible bars, hand-built
VolumeAlternatives ==
    {EmptyDict, VolumeDegraded, [volume_present |-> TRUE],
     VolumeRecord(0, SampleHeight, SampleWidth),
     VolumeRecord(1, SampleHeight, SampleWidth),
     VolumeRecord(30, SampleHeight, SampleWidth),
     VolumeRecord(300, SampleHeight, SampleWidth)}

\* the records the fusion engine was given, with the volume record taken out
WithoutVolume ==
    [key \in DOMAIN analysis_results \ {"volume_analysis"} |-> analysis_results[key]]

\* C29: the volume record never influences the trading signal: for any two
\* sets of analysis records that differ only in the volume record the fusion
\* engine emits the identical signal, on every path.
C29_VolumeNonInterference ==
    Fused =>
        /\ GenerateTradingSignal(WithoutVolume) = trading_signal
        /\ \A volume \in VolumeAlternatives :
              GenerateTradingSignal(("volume_analysis" :> volume) @@ WithoutVolume)
                  = trading_signal

\* C29 witness: a weighted signal was fused from records whose volume record
\* shows bars, and without bars the others would be the same
C29_Witness ==
    /\ Returned /\ WeightedPath
    /\ Record("volume_analysis").volume_present = TRUE
    /\ Record("volume_analysis").volume_pattern = "bars_detected"
    /\ TrendDirected
    /\ trading_signal.confidence > 7500

\* a signal with side sell has its stop above the entry and its target below
SellOffsetsSigned(signal) ==
    signal.side = "sell" => (signal.stopLossPercent > 0 /\ signal.takeProfitPercent < 0)

\* C30: the sign convention of the offsets holds for every sell signal the
\* core can return, weighted path, fusion fallback and decode-error response
\* alike: a positive stopLossPercent and a negative takeProfitPercent.  The
\* fusion fallback and the error response are sell signals with
\* takeProfitPercent +2.0, so this fails.
C30_SellOffsetsSignedEverywhere ==
    /\ Returned => SellOffsetsSigned(result.trading_signal)
    /\ Fused => SellOffsetsSigned(trading_signal)

\* the float next above x
NextFloatAbove(x) == BigAdd(x, ShiftLeft(<<1>>, BitLength(x) - SignificandBits))

\* C27 as stated, on the floats the code computes with: every signal returned
\* has confidence at most 0.95, and so within [0.75, 0.95]; the weighted score
\* 0.4 x trend + 0.3 x pattern + 0.2 x price action + 0.1 never exceeds 0.95
\* with the analyzer outputs bounded as the analyzers bound them.  The float
\* sum at the bounds, 0.38 + 0.27 + 0.2 + 0.1, is rounded up, so this fails.
C27_ConfidenceAtMostBound ==
    Returned =>
        /\ ~FloatLess(result.trading_signal.confidence, Float(MinimumConfidence, One))
        /\ ~FloatLess(Float(CopyConfidence, One), result.trading_signal.confidence)

\* C27, amended: every signal returned has confidence at least 0.75 and at
\* most the float next above 0.95 (0.9500000000000001): the weighted score is
\* a float sum, and at the analyzers' bounds it is rounded up past 0.95 by one
\* unit in the last place; the confidences of the analyzers stay within their
\* bounds 0.95, 0.9 and 1.0.
C27_ConfidenceAtMostBoundRounded ==
    Returned =>
        /\ ~FloatLess(result.trading_signal.confidence, Float(MinimumConfidence, One))
        /\ ~FloatLess(NextFloatAbove(Float(CopyConfidence, One)),
                      result.trading_signal.confidence)
        /\ result.success =>
                /\ ~FloatLess(Float(9500, One), Record("trend_analysis").confidence)
                /\ ~FloatLess(Float(9000, One), Record("candlestick_patterns").confidence)
                /\ ~FloatLess(FloatOfInt(1), Record("price_action").trend_strength)

\* C27 witness: trend confidence 0.95, pattern confidence 0.9, price-action
\* strength 1.0 and support/resistance levels gave the confidence next above 0.95
C27_Witness ==
    /\ Returned
    /\ result.success
    /\ result.trading_signal.method = "python_computer_vision"
    /\ Record("trend_analysis").confidence = Float(9500, One)
    /\ Record("candlestick_patterns").confidence = Float(9000, One)
    /\ Record("price_action").trend_strength = FloatOfInt(1)
    /\ Record("support_resistance").has_support_resistance
    /\ FloatLess(Float(9500, One), result.trading_signal.confidence)
    /\ result.trading_signal.confidence = NextFloatAbove(Float(9500, One))

====
